---------------------------- MODULE Spec2Model ----------------------------
(***************************************************************************)
(* A model of tombl/router: the route compiler and matcher of matcher.ts   *)
(* and route.ts, and the routers built on it: createHttpRouter, the class  *)
(* Router and createBrowserRouter.                                         *)
(*                                                                         *)
(* Text is modelled as a sequence of one-character strings, so that        *)
(* splitting, joining, escaping and regular-expression matching are        *)
(* computed character by character, the way the code and the engine do.    *)
(***************************************************************************)
EXTENDS Integers, Sequences, FiniteSets, TLC

VARIABLES
    phase,      \* "idle": nothing built; "built": a matcher exists; "threw": construction threw
    api,        \* which module built the matcher: "matcher.ts" or "route.ts"
    routes,     \* the routes argument, in insertion order (pattern strings)
    matcher,    \* the closure state of the matcher: entries, regex, mapping
    lastIndex,  \* regex.lastIndex, the only mutable field of the RegExp object
    call,       \* the call of the matcher that is returning: its pathname and result,
                \* and whether a call with this pathname was recorded before
    seen,       \* history: for each pathname recorded, what its first call returned
    httpRouter, \* http.ts: the closure state of createHttpRouter (config, routes, matcher)
    stored,     \* http.ts: the Response objects given as route configurations
    inflight,   \* http.ts: the requests given to fetch that the caller still holds
    classRouter, \* class Router: #routes, #matcher and the queued microtask
    registered, \* history: the calls of get, post, ... made so far, in order
    answer,     \* class Router: the last fetch, and what it dispatched to
    browserRouter, \* createBrowserRouter: routes, notFound, matcher, controller, listeners
    navigations,   \* createBrowserRouter: the calls of navigate and onPopState, in order
    location,      \* the pathname of window.location
    hash,          \* location.hash
    event,         \* the last click or popstate event given to the router's listeners
    routeMade,  \* route.ts: the Route that createRoute returned, or its throw
    lowering,   \* matcher.ts: what route.split("/").map(...) made of the same pattern
    link,       \* route.ts: the call of href on the route: its params and its result
    roundTrip   \* route.ts: what createMatcher([route]) returns for the result of href

coreVars == <<phase, api, routes, matcher, lastIndex, call, seen>>

httpVars == <<httpRouter, stored, inflight>>

routerVars == <<classRouter, registered, answer>>

\* The state of the programs built on the matcher.
browserVars == <<browserRouter, navigations, location, hash, event>>

\* The state of the calls of createRoute, the segment mapping and href.
linkVars == <<routeMade, lowering, link, roundTrip>>

hostVars == <<httpVars, routerVars, browserVars, linkVars>>

vars == <<coreVars, httpVars, routerVars, browserVars, linkVars>>

---------------------------------------------------------------------------
(* Bounds of the model. *)

MaxRoutes == 2
MaxPathSegs == 3

---------------------------------------------------------------------------
(* Text helpers: the JavaScript built-ins the code calls. *)

Slash == "/"

RECURSIVE Join(_, _)
Join(parts, sep) ==
    IF Len(parts) = 0 THEN <<>>
    ELSE IF Len(parts) = 1 THEN parts[1]
    ELSE parts[1] \o <<sep>> \o Join(Tail(parts), sep)

RECURSIVE Split(_, _)
Split(s, sep) ==
    IF \A p \in 1..Len(s) : s[p] # sep THEN <<s>>
    ELSE LET p == CHOOSE q \in 1..Len(s) :
                      s[q] = sep /\ \A r \in 1..(q - 1) : s[r] # sep
         IN <<SubSeq(s, 1, p - 1)>> \o Split(SubSeq(s, p + 1, Len(s)), sep)

DigitChars == <<"0", "1", "2", "3", "4", "5", "6", "7", "8", "9">>

Digits == {DigitChars[d] : d \in 1..10}

Letters ==
    {"a", "b", "c", "d", "e", "f", "g", "h", "i", "j", "k", "l", "m",
     "n", "o", "p", "q", "r", "s", "t", "u", "v", "w", "x", "y", "z",
     "A", "B", "C", "D", "E", "F", "G", "H", "I", "J", "K", "L", "M",
     "N", "O", "P", "Q", "R", "S", "T", "U", "V", "W", "X", "Y", "Z"}

RECURSIVE NumberToString(_)
NumberToString(n) ==
    IF n < 10 THEN <<DigitChars[n + 1]>>
    ELSE NumberToString(n \div 10) \o <<DigitChars[(n % 10) + 1]>>

Min(S) == CHOOSE x \in S : \A y \in S : x <= y

Max(S) == CHOOSE x \in S : \A y \in S : x >= y

---------------------------------------------------------------------------
(* The two regular expressions of the module. *)

\* Faulty variant: the name may begin with a digit, /^:([a-z0-9]+)$/i.
NAMED_SEGMENTDigitFirst(segment) ==
    IF /\ Len(segment) >= 2
       /\ segment[1] = ":"
       /\ \A p \in 2..Len(segment) : segment[p] \in Letters \cup Digits
    THEN [found |-> TRUE, name |-> SubSeq(segment, 2, Len(segment))]
    ELSE [found |-> FALSE, name |-> <<>>]

\* NAMED_SEGMENT = /^:([a-z][a-z0-9]*)$/i : .exec(segment) is a match with
\* the name as its first group, or null.
NAMED_SEGMENT(segment) ==
    IF /\ Len(segment) >= 2
       /\ segment[1] = ":"
       /\ segment[2] \in Letters
       /\ \A p \in 3..Len(segment) : segment[p] \in Letters \cup Digits
    THEN [found |-> TRUE, name |-> SubSeq(segment, 2, Len(segment))]
    ELSE [found |-> FALSE, name |-> <<>>]

\* ENDS_WITH_NUMBER = /_\d+$/ : key.replace(ENDS_WITH_NUMBER, "")
ENDS_WITH_NUMBER(key) ==
    LET starts == {p \in 1..(Len(key) - 1) :
                      /\ key[p] = "_"
                      /\ \A q \in (p + 1)..Len(key) : key[q] \in Digits}
    IN IF starts = {} THEN key ELSE SubSeq(key, 1, Min(starts) - 1)

---------------------------------------------------------------------------
(* The source of the combined regular expression, as a sequence of tokens: *)
(* the syntax the code writes itself ("^", "(", ")", "$", "|", the two     *)
(* named groups) and the raw characters that escape() and join("/") emit.  *)

Tok(t, c, name) ==
    [t |-> t, c |-> c, name |-> name, class |-> "", min |-> 0, lazy |-> FALSE]

Ch(c) == Tok("ch", c, <<>>)

\* `(?<name>X)`, X one character class under a quantifier: class is "." or
\* "[^/]", min is 0 for `*` and 1 for `+`, lazy tells a trailing `?`.
NamedGroup(name, class, min, lazy) ==
    [t |-> "group", c |-> "", name |-> name, class |-> class, min |-> min, lazy |-> lazy]

\* `(?<splat>.*)`
SplatGroup == NamedGroup(<<"s", "p", "l", "a", "t">>, ".", 0, FALSE)

\* Faulty variant: the parameter group is named by the parameter alone,
\* `(?<${name}>[^/]+?)`.
ParamGroupUnnumbered(name, i) ==
    NamedGroup(name, "[^/]", 1, TRUE)

\* Faulty variant: the parameter group written `[^/]*?`, which an empty run satisfies.
ParamGroupMayBeEmpty(name, i) ==
    NamedGroup(name \o <<"_">> \o NumberToString(i), "[^/]", 0, TRUE)

\* `(?<${name}_${i}>[^/]+?)`
ParamGroup(name, i) ==
    NamedGroup(name \o <<"_">> \o NumberToString(i), "[^/]", 1, TRUE)

\* The characters with a meaning in regular-expression syntax.
SyntaxChars ==
    {".", "*", "+", "?", "^", "$", "{", "}", "(", ")", "|", "[", "]", "\\"}

\* escape(segment): every syntax character is preceded by a backslash.
RECURSIVE escape(_)
escape(segment) ==
    IF Len(segment) = 0 THEN <<>>
    ELSE (IF Head(segment) \in SyntaxChars
          THEN <<Ch("\\"), Ch(Head(segment))>>
          ELSE <<Ch(Head(segment))>>) \o escape(Tail(segment))


---------------------------------------------------------------------------
(* matcher.ts: createMatcher, the construction of the combined expression. *)

RECURSIVE StringToNumber(_)
StringToNumber(s) ==
    IF Len(s) = 0 THEN 0
    ELSE 10 * StringToNumber(SubSeq(s, 1, Len(s) - 1))
         + (CHOOSE d \in 0..9 : DigitChars[d + 1] = s[Len(s)])

\* An own property key that is an array index: a canonical decimal numeral.
\* (Numerals of up to nine digits are all below the 2^32 - 1 limit.)
IsArrayIndex(key) ==
    /\ Len(key) \in 1..9
    /\ \A p \in 1..Len(key) : key[p] \in Digits
    /\ (Len(key) = 1 \/ key[1] # "0")

\* Object.entries(routes): the own keys in property order, which is the array
\* indices in ascending numeric order and then the other strings in insertion
\* order. A route object is given as its keys in insertion order; the value
\* of the n-th inserted key is handler n.
RECURSIVE SortByNumber(_)
SortByNumber(S) ==
    IF S = {} THEN <<>>
    ELSE LET e == CHOOSE x \in S :
                      \A y \in S : StringToNumber(x.route) <= StringToNumber(y.route)
         IN <<e>> \o SortByNumber(S \ {e})

ObjectEntries(keys) ==
    LET entry(n) == [route |-> keys[n], fn |-> n]
        all == [n \in 1..Len(keys) |-> entry(n)]
        isIndex(e) == IsArrayIndex(e.route)
    IN SortByNumber({all[n] : n \in {m \in 1..Len(keys) : isIndex(all[m])}})
       \o SelectSeq(all, LAMBDA e : ~isIndex(e))

\* Faulty variant: the splat branch forgets `i++`, so the counter falls behind the
\* engine's group numbers.
MapSegmentSplatUncounted(segment, k, segments, i) ==
    IF segment = <<"*">>
    THEN IF k # Len(segments) - 1
         THEN [threw |-> TRUE, src |-> <<>>, i |-> i]
         ELSE [threw |-> FALSE, src |-> <<SplatGroup>>, i |-> i]
    ELSE LET match == NAMED_SEGMENT(segment)
         IN IF match.found
            THEN [threw |-> FALSE, src |-> <<ParamGroup(match.name, i + 1)>>, i |-> i + 1]
            ELSE [threw |-> FALSE, src |-> escape(segment), i |-> i]

\* Faulty variant: the position test compares with segments.length, so that a final
\* `*` throws too.
MapSegmentOffByOne(segment, k, segments, i) ==
    IF segment = <<"*">>
    THEN IF k # Len(segments)
         THEN [threw |-> TRUE, src |-> <<>>, i |-> i]
         ELSE [threw |-> FALSE, src |-> <<SplatGroup>>, i |-> i + 1]
    ELSE LET match == NAMED_SEGMENT(segment)
         IN IF match.found
            THEN [threw |-> FALSE, src |-> <<ParamGroup(match.name, i + 1)>>, i |-> i + 1]
            ELSE [threw |-> FALSE, src |-> escape(segment), i |-> i]

\* Faulty variant: a static segment is returned as it is, without escape().
MapSegmentUnescaped(segment, k, segments, i) ==
    IF segment = <<"*">>
    THEN IF k # Len(segments) - 1
         THEN [threw |-> TRUE, src |-> <<>>, i |-> i]
         ELSE [threw |-> FALSE, src |-> <<SplatGroup>>, i |-> i + 1]
    ELSE LET match == NAMED_SEGMENT(segment)
         IN IF match.found
            THEN [threw |-> FALSE, src |-> <<ParamGroup(match.name, i + 1)>>, i |-> i + 1]
            ELSE [threw |-> FALSE, src |-> [p \in 1..Len(segment) |-> Ch(segment[p])], i |-> i]

\* The callback of route.split("/").map(...): the source of one segment and
\* the new value of the counter i, or a throw. k is the zero-based position.
MapSegment(segment, k, segments, i) ==
    IF segment = <<"*">>
    THEN IF k # Len(segments) - 1
         THEN [threw |-> TRUE, src |-> <<>>, i |-> i]
         ELSE [threw |-> FALSE, src |-> <<SplatGroup>>, i |-> i + 1]
    ELSE LET match == NAMED_SEGMENT(segment)
         IN IF match.found
            THEN [threw |-> FALSE, src |-> <<ParamGroup(match.name, i + 1)>>, i |-> i + 1]
            ELSE [threw |-> FALSE, src |-> escape(segment), i |-> i]

\* segments.map(callback) from position k on, threading the counter i.
RECURSIVE MapSegments(_, _, _)
MapSegments(segments, k, i) ==
    IF k >= Len(segments) THEN [threw |-> FALSE, parts |-> <<>>, i |-> i]
    ELSE LET one == MapSegment(segments[k + 1], k, segments, i)
         IN IF one.threw THEN [threw |-> TRUE, parts |-> <<>>, i |-> one.i]
            ELSE LET rest == MapSegments(segments, k + 1, one.i)
                 IN [threw |-> rest.threw,
                     parts |-> <<one.src>> \o rest.parts,
                     i |-> rest.i]

\* Faulty variant: `^(${pattern})`, without the end anchor.
AnchoredAtStartOnly(pattern) ==
    <<Tok("^", "", <<>>), Tok("(", "", <<>>)>> \o pattern \o <<Tok(")", "", <<>>)>>

\* Faulty variant: `(${pattern})$`, without the start anchor.
AnchoredAtEndOnly(pattern) ==
    <<Tok("(", "", <<>>)>> \o pattern \o <<Tok(")", "", <<>>), Tok("$", "", <<>>)>>

\* `^(${pattern})$`
Anchored(pattern) ==
    <<Tok("^", "", <<>>), Tok("(", "", <<>>)>> \o pattern
    \o <<Tok(")", "", <<>>), Tok("$", "", <<>>)>>

\* Faulty variant: the side table is keyed by the pattern counter, `mapping[j] = j++`,
\* as if every pattern had one capture group.
RECURSIVE MapEntriesKeyedByPattern(_, _, _, _)
MapEntriesKeyedByPattern(entries, n, i, j) ==
    IF n > Len(entries) THEN [threw |-> FALSE, alts |-> <<>>, mapping |-> <<>>]
    ELSE LET segs == MapSegments(Split(entries[n].route, Slash), 0, i + 1)
         IN IF segs.threw THEN [threw |-> TRUE, alts |-> <<>>, mapping |-> <<>>]
            ELSE LET rest == MapEntriesKeyedByPattern(entries, n + 1, segs.i, j + 1)
                 IN [threw |-> rest.threw,
                     alts |-> <<Anchored(Join(segs.parts, Ch(Slash)))>> \o rest.alts,
                     mapping |-> (j :> j) @@ rest.mapping]

\* Faulty variant: `mapping[++i] = j++`, the side table keyed one too high.
RECURSIVE MapEntriesKeyedLate(_, _, _, _)
MapEntriesKeyedLate(entries, n, i, j) ==
    IF n > Len(entries) THEN [threw |-> FALSE, alts |-> <<>>, mapping |-> <<>>]
    ELSE LET segs == MapSegments(Split(entries[n].route, Slash), 0, i + 1)
         IN IF segs.threw THEN [threw |-> TRUE, alts |-> <<>>, mapping |-> <<>>]
            ELSE LET rest == MapEntriesKeyedLate(entries, n + 1, segs.i, j + 1)
                 IN [threw |-> rest.threw,
                     alts |-> <<Anchored(Join(segs.parts, Ch(Slash)))>> \o rest.alts,
                     mapping |-> ((i + 1) :> j) @@ rest.mapping]

\* entries.map(([route]) => ...) from entry n on, with the counters i and j:
\* mapping[i++] = j++, then the pattern of the route.
RECURSIVE MapEntries(_, _, _, _)
MapEntries(entries, n, i, j) ==
    IF n > Len(entries) THEN [threw |-> FALSE, alts |-> <<>>, mapping |-> <<>>]
    ELSE LET segs == MapSegments(Split(entries[n].route, Slash), 0, i + 1)
         IN IF segs.threw THEN [threw |-> TRUE, alts |-> <<>>, mapping |-> <<>>]
            ELSE LET rest == MapEntries(entries, n + 1, segs.i, j + 1)
                 IN [threw |-> rest.threw,
                     alts |-> <<Anchored(Join(segs.parts, Ch(Slash)))>> \o rest.alts,
                     mapping |-> (i :> j) @@ rest.mapping]

---------------------------------------------------------------------------
(* route.ts: createRoute and the construction of createMatcher. *)

Segment(type, value, name) == [type |-> type, value |-> value, name |-> name]

\* The callback of path.split("/").map<Segment>(...), i the zero-based position.
RouteSegment(segment, i, segments) ==
    IF segment = <<"*">>
    THEN IF i # Len(segments) - 1
         THEN [threw |-> TRUE, segment |-> Segment("splat", <<>>, <<>>)]
         ELSE [threw |-> FALSE, segment |-> Segment("splat", <<>>, <<>>)]
    ELSE LET match == NAMED_SEGMENT(segment)
         IN IF match.found
            THEN [threw |-> FALSE, segment |-> Segment("param", <<>>, match.name)]
            ELSE [threw |-> FALSE, segment |-> Segment("static", segment, <<>>)]

createRoute(path) ==
    LET pieces == Split(path, Slash)
        each == [p \in 1..Len(pieces) |-> RouteSegment(pieces[p], p - 1, pieces)]
    IN [threw |-> \E p \in 1..Len(pieces) : each[p].threw,
        path |-> path,
        segments |-> [p \in 1..Len(pieces) |-> each[p].segment]]

\* route.segments.map(...) of createMatcher, threading the counter i.
RECURSIVE RouteMapSegments(_, _, _)
RouteMapSegments(segments, k, i) ==
    IF k > Len(segments) THEN [parts |-> <<>>, i |-> i]
    ELSE LET segment == segments[k]
             one == CASE segment.type = "splat" ->
                            [src |-> <<SplatGroup>>, i |-> i + 1]
                      [] segment.type = "param" ->
                            [src |-> <<ParamGroup(segment.name, i + 1)>>, i |-> i + 1]
                      [] OTHER ->
                            [src |-> escape(segment.value), i |-> i]
             rest == RouteMapSegments(segments, k + 1, one.i)
         IN [parts |-> <<one.src>> \o rest.parts, i |-> rest.i]

RECURSIVE RouteMapRoutes(_, _, _, _)
RouteMapRoutes(rs, n, i, j) ==
    IF n > Len(rs) THEN [alts |-> <<>>, mapping |-> <<>>]
    ELSE LET segs == RouteMapSegments(rs[n].segments, 1, i + 1)
             rest == RouteMapRoutes(rs, n + 1, segs.i, j + 1)
         IN [alts |-> <<Anchored(Join(segs.parts, Ch(Slash)))>> \o rest.alts,
             mapping |-> (i :> j) @@ rest.mapping]

---------------------------------------------------------------------------
(* The regular-expression engine: new RegExp(source) and regex.exec(str).  *)

\* The line terminators (of which the model's texts use the first two).
LineTerminators == {"\n", "\r"}

Node(t, c, name, idx) ==
    [t |-> t, c |-> c, name |-> name, idx |-> idx, class |-> "", min |-> 0, lazy |-> FALSE]

GroupNode(tok, idx) ==
    [t |-> "group", c |-> "", name |-> tok.name, idx |-> idx,
     class |-> tok.class, min |-> tok.min, lazy |-> tok.lazy]

\* Whether character ch belongs to a class: `.` is any character but a line
\* terminator (no dotAll flag), `[^/]` any character but the slash.
InClass(class, ch) ==
    IF class = "." THEN ch \notin LineTerminators ELSE ch # Slash


\* The nodes of source[p..]. n is the number of capture groups opened so far
\* (the engine numbers capture groups, named or not, by their opening
\* parenthesis, from 1), open the number of the enclosing unnamed group.
\* A backslash makes the next character a literal and an unescaped `.` is
\* the any-character atom; every other raw character stands for itself.
RECURSIVE Parse(_, _, _, _)
Parse(source, p, n, open) ==
    IF p > Len(source) THEN <<>>
    ELSE LET tok == source[p]
         IN CASE tok.t = "(" ->
                    <<Node("open", "", <<>>, n + 1)>> \o Parse(source, p + 1, n + 1, n + 1)
              [] tok.t = ")" ->
                    <<Node("close", "", <<>>, open)>> \o Parse(source, p + 1, n, 0)
              [] tok.t = "group" ->
                    <<GroupNode(tok, n + 1)>> \o Parse(source, p + 1, n + 1, open)
              [] tok.t = "ch" /\ tok.c = "\\" /\ p < Len(source) ->
                    <<Node("lit", source[p + 1].c, <<>>, 0)>> \o Parse(source, p + 2, n, open)
              [] tok.t = "ch" /\ tok.c = "." ->
                    <<Node("dot", "", <<>>, 0)>> \o Parse(source, p + 1, n, open)
              [] tok.t = "ch" ->
                    <<Node("lit", tok.c, <<>>, 0)>> \o Parse(source, p + 1, n, open)
              [] OTHER ->
                    <<Node(tok.t, "", <<>>, 0)>> \o Parse(source, p + 1, n, open)

\* The alternatives of a node sequence: its parts between the "|" nodes.
RECURSIVE Alternatives(_)
Alternatives(nodes) ==
    IF \A p \in 1..Len(nodes) : nodes[p].t # "|" THEN <<nodes>>
    ELSE LET p == Min({q \in 1..Len(nodes) : nodes[q].t = "|"})
         IN <<SubSeq(nodes, 1, p - 1)>>
            \o Alternatives(SubSeq(nodes, p + 1, Len(nodes)))

\* The group names in source order, each once (the keys of match.groups).
RECURSIVE GroupNames(_, _)
GroupNames(nodes, had) ==
    IF Len(nodes) = 0 THEN <<>>
    ELSE LET nd == Head(nodes)
         IN IF nd.t = "group" /\ nd.name \notin had
            THEN <<nd.name>> \o GroupNames(Tail(nodes), had \cup {nd.name})
            ELSE GroupNames(Tail(nodes), had)

\* Faulty variant: new RegExp(source, "g"), whose exec reads and writes lastIndex.
NewRegExpGlobal(source) ==
    LET nodes == Parse(source, 1, 0, 0)
    IN [alts |-> Alternatives(nodes),
        ngroups |-> Cardinality({p \in 1..Len(nodes) :
                                    nodes[p].t \in {"open", "group"}}),
        names |-> GroupNames(nodes, {}),
        global |-> TRUE,
        sticky |-> FALSE]

\* new RegExp(source): no flags are given.
NewRegExp(source) ==
    LET nodes == Parse(source, 1, 0, 0)
    IN [alts |-> Alternatives(nodes),
        ngroups |-> Cardinality({p \in 1..Len(nodes) :
                                    nodes[p].t \in {"open", "group"}}),
        names |-> GroupNames(nodes, {}),
        global |-> FALSE,
        sticky |-> FALSE]

Fail == [ok |-> FALSE, end |-> 0, caps |-> {}]

Capture(r, idx, name, s, e) ==
    IF r.ok THEN [r EXCEPT !.caps = @ \cup {[idx |-> idx, name |-> name, s |-> s, e |-> e]}]
    ELSE r

\* Backtracking match of nodes[k..] against str from position pos (the number
\* of characters before it); from is where the enclosing group began.
\* A lazy quantifier takes the shortest run of its class after which the rest
\* matches, a greedy one the longest.
RECURSIVE MatchFrom(_, _, _, _, _)
MatchFrom(nodes, k, str, pos, from) ==
    IF k > Len(nodes) THEN [ok |-> TRUE, end |-> pos, caps |-> {}]
    ELSE LET nd == nodes[k]
             next(q) == MatchFrom(nodes, k + 1, str, q, from)
         IN CASE nd.t = "^" -> IF pos = 0 THEN next(pos) ELSE Fail
              [] nd.t = "$" -> IF pos = Len(str) THEN next(pos) ELSE Fail
              [] nd.t = "open" -> MatchFrom(nodes, k + 1, str, pos, pos)
              [] nd.t = "close" -> Capture(next(pos), nd.idx, <<>>, from, pos)
              [] nd.t = "lit" ->
                    IF pos < Len(str) /\ str[pos + 1] = nd.c THEN next(pos + 1) ELSE Fail
              [] nd.t = "dot" ->
                    IF pos < Len(str) /\ str[pos + 1] \notin LineTerminators
                    THEN next(pos + 1) ELSE Fail
              [] nd.t = "group" ->
                    LET ends == {e \in (pos + nd.min)..Len(str) :
                                    /\ \A q \in (pos + 1)..e : InClass(nd.class, str[q])
                                    /\ next(e).ok}
                        end == IF nd.lazy THEN Min(ends) ELSE Max(ends)
                    IN IF ends = {} THEN Fail
                       ELSE Capture(next(end), nd.idx, nd.name, pos, end)
              [] OTHER -> Fail

\* The first alternative, in source order, that matches at pos.
RECURSIVE MatchAlternatives(_, _, _, _)
MatchAlternatives(alts, a, str, pos) ==
    IF a > Len(alts) THEN Fail
    ELSE LET r == MatchFrom(alts[a], 1, str, pos, pos)
         IN IF r.ok THEN r ELSE MatchAlternatives(alts, a + 1, str, pos)

\* The first position, from start on, at which the expression matches.
RECURSIVE MatchAt(_, _, _)
MatchAt(re, str, start) ==
    IF start > Len(str) THEN Fail
    ELSE LET r == MatchAlternatives(re.alts, 1, str, start)
         IN IF r.ok THEN r
            ELSE IF re.sticky THEN Fail
            ELSE MatchAt(re, str, start + 1)

Defined(v) == [def |-> TRUE, v |-> v]

Undefined == [def |-> FALSE, v |-> <<>>]

\* regex.exec(str) with regex.lastIndex = li: null, or the match array (its
\* element g the text of capture group g, or undefined) and match.groups (the
\* named groups in source order); and the new value of regex.lastIndex.
\* lastIndex is read and written only under the g or y flag.
RegExpExec(re, str, li) ==
    LET r == MatchAt(re, str, IF re.global \/ re.sticky THEN li ELSE 0)
        text(c) == SubSeq(str, c.s + 1, c.e)
        group(g) == IF \E c \in r.caps : c.idx = g
                    THEN Defined(text(CHOOSE c \in r.caps : c.idx = g))
                    ELSE Undefined
        named(nm) == IF \E c \in r.caps : c.name = nm
                     THEN Defined(text(CHOOSE c \in r.caps : c.name = nm))
                     ELSE Undefined
    IN IF ~r.ok
       THEN [isNull |-> TRUE, match |-> <<>>, groups |-> <<>>,
             lastIndex |-> IF re.global \/ re.sticky THEN 0 ELSE li]
       ELSE [isNull |-> FALSE,
             match |-> [g \in 1..re.ngroups |-> group(g)],
             groups |-> [n \in 1..Len(re.names) |->
                            [key |-> re.names[n], value |-> named(re.names[n])]],
             lastIndex |-> IF re.global \/ re.sticky THEN r.end ELSE li]

---------------------------------------------------------------------------
(* The match closure returned by createMatcher (matcher.ts and route.ts).  *)

NullResult == [kind |-> "null", index |-> -1, params |-> <<>>]

ThrowResult == [kind |-> "threw", index |-> -1, params |-> <<>>]

\* match.findIndex((m, i) => i && m !== undefined): the index in the match
\* array of the first defined capture group, or -1.
FindIndex(match) ==
    LET defined == {g \in 1..Len(match) : match[g].def}
    IN IF defined = {} THEN -1 ELSE Min(defined)

\* Faulty variant: the loop without `if (value === undefined) continue`.
RECURSIVE CollectGroupsUndefinedToo(_, _)
CollectGroupsUndefinedToo(groups, n) ==
    IF n = 0 THEN <<>>
    ELSE LET prev == CollectGroupsUndefinedToo(groups, n - 1)
             g == groups[n]
             key == IF g.key = SplatGroup.name THEN <<"*">>
                    ELSE ENDS_WITH_NUMBER(g.key)
         IN (key :> g.value.v) @@ prev

\* Faulty variant: the values go through decodeURIComponent, which on the
\* texts of the model turns each %41 into A.
RECURSIVE PercentDecoded(_)
PercentDecoded(value) ==
    IF Len(value) = 0 THEN <<>>
    ELSE IF Len(value) >= 3 /\ SubSeq(value, 1, 3) = <<"%", "4", "1">>
    THEN <<"A">> \o PercentDecoded(SubSeq(value, 4, Len(value)))
    ELSE <<value[1]>> \o PercentDecoded(Tail(value))

RECURSIVE CollectGroupsDecoded(_, _)
CollectGroupsDecoded(groups, n) ==
    IF n = 0 THEN <<>>
    ELSE LET prev == CollectGroupsDecoded(groups, n - 1)
             g == groups[n]
             key == IF g.key = SplatGroup.name THEN <<"*">>
                    ELSE ENDS_WITH_NUMBER(g.key)
         IN IF ~g.value.def THEN prev
            ELSE (key :> PercentDecoded(g.value.v)) @@ prev

\* Faulty variant: a key that is already set is not assigned again.
RECURSIVE CollectGroupsFirstKept(_, _)
CollectGroupsFirstKept(groups, n) ==
    IF n = 0 THEN <<>>
    ELSE LET prev == CollectGroupsFirstKept(groups, n - 1)
             g == groups[n]
             key == IF g.key = SplatGroup.name THEN <<"*">>
                    ELSE ENDS_WITH_NUMBER(g.key)
         IN IF ~g.value.def THEN prev
            ELSE prev @@ (key :> g.value.v)

\* The loop `for (let key in match.groups)` over the first n keys: undefined
\* groups are skipped, "splat" becomes "*", the numeric suffix is removed, and
\* a later assignment to the same key replaces an earlier one.
RECURSIVE CollectGroups(_, _)
CollectGroups(groups, n) ==
    IF n = 0 THEN <<>>
    ELSE LET prev == CollectGroups(groups, n - 1)
             g == groups[n]
             key == IF g.key = SplatGroup.name THEN <<"*">>
                    ELSE ENDS_WITH_NUMBER(g.key)
         IN IF ~g.value.def THEN prev
            ELSE (key :> g.value.v) @@ prev

\* (pathname) => ... : what the call returns, and regex.lastIndex after it.
\* The result names the entry chosen (zero-based idx): matcher.ts returns
\* entries[idx][1](groups), route.ts {path: routes[idx].path, params}.
MatchClosure(m, pathname, li) ==
    IF m.empty THEN [result |-> NullResult, lastIndex |-> li]
    ELSE LET x == RegExpExec(m.regex, pathname, li)
             at == FindIndex(x.match) - 1
         IN IF x.isNull THEN [result |-> NullResult, lastIndex |-> x.lastIndex]
            ELSE IF at \notin DOMAIN m.mapping
                    \/ m.mapping[at] \notin 0..(Len(m.entries) - 1)
                 THEN [result |-> ThrowResult, lastIndex |-> x.lastIndex]
                 ELSE [result |-> [kind |-> "match",
                                   index |-> m.mapping[at],
                                   params |-> CollectGroups(x.groups, Len(x.groups))],
                       lastIndex |-> x.lastIndex]

NoRegExp == [alts |-> <<>>, ngroups |-> 0, names |-> <<>>, global |-> FALSE, sticky |-> FALSE]

NoMatcher == [empty |-> TRUE, entries |-> <<>>, regex |-> NoRegExp, mapping |-> <<>>]

\* Faulty variant: createMatcher without `if (entries.length === 0) return () => null`.
CompileEntriesAlways(entries) ==
    LET built == MapEntries(entries, 1, 0, 0)
    IN IF built.threw THEN [threw |-> TRUE, matcher |-> NoMatcher]
       ELSE [threw |-> FALSE,
             matcher |-> [empty |-> FALSE,
                          entries |-> entries,
                          regex |-> NewRegExp(Join(built.alts, Tok("|", "", <<>>))),
                          mapping |-> built.mapping]]

\* createMatcher of matcher.ts from its entries on: the empty table, a throw
\* of the construction, or the closure over entries, regex and mapping.
CompileEntries(entries) ==
    LET built == MapEntries(entries, 1, 0, 0)
    IN IF Len(entries) = 0 THEN [threw |-> FALSE, matcher |-> NoMatcher]
       ELSE IF built.threw THEN [threw |-> TRUE, matcher |-> NoMatcher]
       ELSE [threw |-> FALSE,
             matcher |-> [empty |-> FALSE,
                          entries |-> entries,
                          regex |-> NewRegExp(Join(built.alts, Tok("|", "", <<>>))),
                          mapping |-> built.mapping]]

\* createMatcher of matcher.ts on a routes object (its keys in insertion order).
createMatcher(keys) == CompileEntries(ObjectEntries(keys))

\* createMatcher of route.ts on an array of routes made by createRoute.
routeCreateMatcher(rs) ==
    LET built == RouteMapRoutes(rs, 1, 0, 0)
    IN IF Len(rs) = 0 THEN NoMatcher
       ELSE [empty |-> FALSE,
             entries |-> [n \in 1..Len(rs) |-> [route |-> rs[n].path, fn |-> n]],
             regex |-> NewRegExp(Join(built.alts, Tok("|", "", <<>>))),
             mapping |-> built.mapping]

---------------------------------------------------------------------------
(* The inputs of the model. *)

\* Route patterns: static, parameter and splat segments, with and without a
\* leading slash, overlapping one another; one has a misplaced splat.
PatternPool ==
    { <<>>,                          \* ""
      <<"a">>,                       \* "a"
      <<"/", "a">>,                  \* "/a"
      <<".">>,                       \* "."
      <<":", "a">>,                  \* ":a"
      <<"/", ":", "a">>,             \* "/:a"
      <<"a", "/", ":", "a">>,        \* "a/:a"
      <<"*">>,                       \* "*"
      <<"a", "/", "*">>,             \* "a/*"
      <<":", "b", "/", "*">>,        \* ":b/*"
      <<"*", "/", "a">> }            \* "*/a"

\* The sequences over S of length 1 to n.
SeqsUpTo(S, n) == UNION {[1..m -> S] : m \in 1..n}

\* Routes objects: distinct keys, in insertion order.
RouteObjects ==
    {<<>>} \cup {ks \in SeqsUpTo(PatternPool, MaxRoutes) :
                    \A p, q \in 1..Len(ks) : p # q => ks[p] # ks[q]}

\* Route arrays: any paths, repeated or not.
RouteArrays == {<<>>} \cup SeqsUpTo(PatternPool, MaxRoutes)

PathSegPool == { <<>>, <<"a">>, <<".">>, <<"a", "\n">> }

Paths == {Join(segs, Slash) : segs \in SeqsUpTo(PathSegPool, MaxPathSegs)}

---------------------------------------------------------------------------
(* The state machine. *)

\* Before createHttpRouter is called.
NoHttpRouter == [ready |-> FALSE, config |-> <<>>, notFound |-> "default",
                 wrongMethod |-> "default", order |-> <<>>, matcher |-> NoMatcher]

\* Before new Router().
NoRouter == [made |-> FALSE, routes |-> <<>>, matcher |-> [null |-> TRUE, m |-> NoMatcher],
             microtask |-> FALSE]

NoAnswer == [made |-> FALSE, method |-> "", url |-> <<>>, at |-> 0,
             kind |-> "", who |-> "", handler |-> 0]

\* Before createBrowserRouter is called.
NoBrowserRouter == [created |-> FALSE, routes |-> <<>>, notFound |-> FALSE,
                    matcher |-> NoMatcher, controller |-> 0, listening |-> FALSE]

\* Before createRoute, the segment mapping and href are called.
NoRoute == [made |-> FALSE, threw |-> FALSE, path |-> <<>>, segments |-> <<>>]

NoLowering == [made |-> FALSE, threw |-> FALSE, parts |-> <<>>]

NoLink == [made |-> FALSE, params |-> <<>>, url |-> <<>>]

NoRoundTrip == [made |-> FALSE, result |-> NullResult]

\* Before any event.
NoEvent == [kind |-> "none", pathname |-> <<>>, prevented |-> FALSE, began |-> FALSE]

NoCall == [made |-> FALSE, pathname |-> <<>>, result |-> NullResult, repeat |-> FALSE]

Init ==
    /\ phase = "idle"
    /\ api = "none"
    /\ routes = <<>>
    /\ matcher = NoMatcher
    /\ lastIndex = 0
    /\ call = NoCall
    /\ seen = <<>>
    /\ httpRouter = NoHttpRouter
    /\ stored = <<>>
    /\ inflight = <<>>
    /\ classRouter = NoRouter
    /\ registered = <<>>
    /\ answer = NoAnswer
    /\ browserRouter = NoBrowserRouter
    /\ navigations = <<>>
    /\ location = <<Slash>>
    /\ hash = ""
    /\ event = NoEvent
    /\ routeMade = NoRoute
    /\ lowering = NoLowering
    /\ link = NoLink
    /\ roundTrip = NoRoundTrip

\* const matcher = createMatcher({...}) (matcher.ts)
CreateMatcher(keys) ==
    /\ phase = "idle"
    /\ LET made == createMatcher(keys)
       IN /\ phase' = IF made.threw THEN "threw" ELSE "built"
          /\ matcher' = made.matcher
    /\ api' = "matcher.ts"
    /\ routes' = keys
    /\ UNCHANGED <<lastIndex, call, seen>>
    /\ UNCHANGED hostVars

\* const matcher = createMatcher([createRoute(p1), ...]) (route.ts)
CreateRouteMatcher(paths) ==
    /\ phase = "idle"
    /\ LET rs == [n \in 1..Len(paths) |-> createRoute(paths[n])]
       IN IF \E n \in 1..Len(paths) : rs[n].threw
          THEN phase' = "threw" /\ matcher' = NoMatcher
          ELSE phase' = "built" /\ matcher' = routeCreateMatcher(rs)
    /\ api' = "route.ts"
    /\ routes' = paths
    /\ UNCHANGED <<lastIndex, call, seen>>
    /\ UNCHANGED hostVars

\* matcher(pathname): the call runs to its return statement. Calls are
\* synchronous, so one begins only when no other is returning.
Invoke(pathname) ==
    /\ phase = "built"
    /\ ~call.made
    /\ LET r == MatchClosure(matcher, pathname, lastIndex)
       IN /\ call' = [made |-> TRUE, pathname |-> pathname, result |-> r.result,
                      repeat |-> pathname \in DOMAIN seen]
          /\ lastIndex' = r.lastIndex
    /\ UNCHANGED <<phase, api, routes, matcher>>
    /\ UNCHANGED hostVars

Match(pathname) ==
    /\ Invoke(pathname)
    /\ UNCHANGED seen

\* The same call, with its result recorded if it is the first for pathname.
MatchRecorded(pathname) ==
    /\ Invoke(pathname)
    /\ seen' = IF pathname \in DOMAIN seen THEN seen
               ELSE (pathname :> call'.result) @@ seen

\* The call returns to its caller; the matcher is ready for the next call.
Return ==
    /\ call.made
    /\ call' = NoCall
    /\ UNCHANGED <<phase, api, routes, matcher, lastIndex, seen>>
    /\ UNCHANGED hostVars

Next ==
    \/ \E keys \in RouteObjects : CreateMatcher(keys)
    \/ \E paths \in RouteArrays : CreateRouteMatcher(paths)
    \/ \E pathname \in Paths : Match(pathname)
    \/ Return

Spec == Init /\ [][Next]_vars

\* Repeated and interleaved calls of one matcher, over a few pathnames.
CallPaths ==
    { <<>>, <<"a">>, <<"/", "a">>, <<"a", "/">>, <<"a", "/", "a">> }

CallsNext ==
    \/ \E keys \in RouteObjects : CreateMatcher(keys)
    \/ \E paths \in RouteArrays : CreateRouteMatcher(paths)
    \/ \E pathname \in CallPaths : MatchRecorded(pathname)
    \/ Return

CallsSpec == Init /\ [][CallsNext]_vars

\* Route objects whose keys are, some of them, written like array indices.
KeyPool ==
    { <<"1">>,                  \* "1"
      <<"2">>,                  \* "2"
      <<"1", "0">>,             \* "10"
      <<"0", "1">>,             \* "01"
      <<"*">>,                  \* "*"
      <<":", "a">> }            \* ":a"

KeyObjects ==
    {<<>>} \cup {ks \in SeqsUpTo(KeyPool, MaxRoutes) :
                    \A p, q \in 1..Len(ks) : p # q => ks[p] # ks[q]}

KeyPaths == { <<"1">>, <<"2">>, <<"1", "0">>, <<"0", "1">>, <<"a">> }

KeysNext ==
    \/ \E keys \in KeyObjects : CreateMatcher(keys)
    \/ \E pathname \in KeyPaths : Match(pathname)
    \/ Return

KeysSpec == Init /\ [][KeysNext]_vars

\* Patterns with capture groups: one name twice in a pattern and in several
\* patterns, a parameter named splat, splats in several patterns.
GroupPatterns ==
    { <<":", "a">>,                         \* ":a"
      <<":", "a", "/", ":", "a">>,          \* ":a/:a"
      <<"a", "/", ":", "a">>,               \* "a/:a"
      <<"/", ":", "a", "/", ":", "b">>,     \* "/:a/:b"
      <<":", "a", "/", "*">>,               \* ":a/*"
      <<":", "s", "p", "l", "a", "t">>,     \* ":splat"
      <<"*">> }                             \* "*"

GroupObjects ==
    {ks \in SeqsUpTo(GroupPatterns, MaxRoutes) :
        \A p, q \in 1..Len(ks) : p # q => ks[p] # ks[q]}

GroupArrays == SeqsUpTo(GroupPatterns, MaxRoutes)

\* Pathnames whose pieces are empty, plain, percent-encoded, blank or a dot.
GroupPieces == { <<>>, <<"a">>, <<"%", "4", "1">>, <<" ">>, <<".">> }

GroupPaths == {Join(segs, Slash) : segs \in SeqsUpTo(GroupPieces, MaxPathSegs)}

GroupsNext ==
    \/ \E keys \in GroupObjects : CreateMatcher(keys)
    \/ \E paths \in GroupArrays : CreateRouteMatcher(paths)
    \/ \E pathname \in GroupPaths : Match(pathname)
    \/ Return

GroupsSpec == Init /\ [][GroupsNext]_vars

---------------------------------------------------------------------------
(* http.ts: createHttpRouter and its fetch.                                *)

MaxInFlight == 1

\* The path state of the URL parser on the path of an http URL, piece k on:
\* a `.` piece is dropped and a `..` piece removes the piece before it; as
\* the last piece either leaves an empty piece behind.
RECURSIVE PathState(_, _, _)
PathState(segs, k, out) ==
    IF k > Len(segs) THEN out
    ELSE LET last == IF k = Len(segs) THEN << <<>> >> ELSE <<>>
         IN CASE segs[k] = <<".", ".">> ->
                    PathState(segs, k + 1,
                              (IF Len(out) > 0 THEN SubSeq(out, 1, Len(out) - 1) ELSE out)
                              \o last)
              [] segs[k] = <<".">> -> PathState(segs, k + 1, out \o last)
              [] OTHER -> PathState(segs, k + 1, out \o <<segs[k]>>)

\* new URL(request.url).pathname, from the path written in the URL: it always
\* begins with a slash.
URLPathname(path) ==
    LET segs == IF Len(path) = 0 THEN << <<>> >> ELSE Tail(Split(path, Slash))
    IN <<Slash>> \o Join(PathState(segs, 1, <<>>), Slash)

\* The function-valued properties that a plain object inherits from
\* Object.prototype.
ObjectPrototype ==
    {"constructor", "toString", "toLocaleString", "valueOf", "hasOwnProperty",
     "isPrototypeOf", "propertyIsEnumerable"}

\* The three shapes of RouteConfig.
StaticResponse == [kind |-> "response", methods |-> {}]

FunctionHandler == [kind |-> "function", methods |-> {}]

MethodHandlers(methods) == [kind |-> "methods", methods |-> methods]

\* A Response object: its status and body, the route whose stored Response it
\* is or was cloned from (0 if none), whether it is the stored object itself,
\* and whether its body has been read.
Response(status, body, of, object) ==
    [kind |-> "response", status |-> status, body |-> body, of |-> of,
     object |-> object, used |-> FALSE]

\* A value that is no Response: what a property of Object.prototype returns.
NotAResponse == [Response(0, "", 0, "new") EXCEPT !.kind = "other"]

\* A TypeError.
Thrown == [Response(0, "", 0, "new") EXCEPT !.kind = "threw"]

NoResponse == [Response(0, "", 0, "new") EXCEPT !.kind = "none"]

\* The Response written in the configuration of route k.
StoredResponse(k) == Response(200, "static", k, "stored")

\* response.clone(): a new object with the same status and body; a TypeError
\* if the body was read.
Clone(response) ==
    IF response.used THEN Thrown
    ELSE [response EXCEPT !.object = "clone"]

\* One call of a function with the request: which function, and the params
\* property of the request at that moment.
Invocation(who, which, route, request) ==
    [who |-> who, which |-> which, route |-> route, params |-> request.params]

\* What a route handler leaves: the request, the calls made, the value returned.
Handled(request, ran, response) ==
    [request |-> request, ran |-> ran, response |-> response]

\* addParams(request, params)
addParams(request, params) == [request EXCEPT !.params = Defined(params)]

\* defaultNotFound, or config.notFound
notFound(router, request) ==
    Handled(request,
            <<Invocation("notFound", router.notFound, 0, request)>>,
            IF router.notFound = "default" THEN Response(404, "not found", 0, "new")
            ELSE Response(200, "config.notFound", 0, "new"))

\* defaultWrongMethod, or config.wrongMethod
wrongMethod(router, request) ==
    Handled(request,
            <<Invocation("wrongMethod", router.wrongMethod, 0, request)>>,
            IF router.wrongMethod = "default" THEN Response(405, "wrong method", 0, "new")
            ELSE Response(200, "config.wrongMethod", 0, "new"))

\* A handler written in the configuration of route k, for one method or all.
RouteFunction(k, method, request) ==
    Handled(request,
            <<Invocation("handler", method, k, request)>>,
            Response(200, "handler", 0, "new"))

\* A function inherited from Object.prototype, called with the request.
InheritedFunction(k, name, request) ==
    Handled(request, <<Invocation("Object.prototype", name, k, request)>>, NotAResponse)

\* Faulty variant: the stored Response itself is returned.
StaticHandlerUncloned(router, k, routeConfig, params, request) ==
    LET r == addParams(request, params)
    IN IF r.method = "GET" THEN Handled(r, <<>>, routeConfig)
       ELSE wrongMethod(router, r)

\* The handler of a route configured with a Response (routeConfig).
StaticHandler(router, k, routeConfig, params, request) ==
    LET r == addParams(request, params)
    IN IF r.method = "GET" THEN Handled(r, <<>>, Clone(routeConfig))
       ELSE wrongMethod(router, r)

\* Faulty variant: the handler is called before addParams.
AllMethodsHandlerParamsLate(router, k, params, request) ==
    LET h == RouteFunction(k, "*", request)
    IN Handled(addParams(request, params), h.ran, h.response)

\* The handler of a route configured with one function for all methods.
AllMethodsHandler(router, k, params, request) ==
    RouteFunction(k, "*", addParams(request, params))

\* routeConfig[request.method]: an own property of the handler map, or else
\* a property inherited from Object.prototype, or else undefined.
GetMethod(routeConfig, method) ==
    IF method \in routeConfig.methods THEN "own"
    ELSE IF method \in ObjectPrototype THEN "inherited"
    ELSE "undefined"

\* The handler of a route configured with a map from methods to handlers.
MethodHandler(router, k, routeConfig, params, request) ==
    LET r == addParams(request, params)
        handler == GetMethod(routeConfig, r.method)
    IN CASE handler = "own" -> RouteFunction(k, r.method, r)
         [] handler = "inherited" -> InheritedFunction(k, r.method, r)
         [] OTHER -> wrongMethod(router, r)

\* routes[pathname](params)(request), for the route that is entry k of
\* config.routes.
RouteHandler(router, responses, k, params, request) ==
    LET routeConfig == router.config[k].config
    IN CASE routeConfig.kind = "response" ->
                StaticHandler(router, k, responses[k], params, request)
         [] routeConfig.kind = "function" ->
                AllMethodsHandler(router, k, params, request)
         [] OTHER ->
                MethodHandler(router, k, routeConfig, params, request)

\* Faulty variant: on no match the wrongMethod responder answers.
HttpFetchWrongFallback(router, responses, request) ==
    LET pathname == URLPathname(request.url)
        respond(handler) ==
            IF handler.kind = "null" THEN wrongMethod(router, request)
            ELSE IF handler.kind = "threw" THEN Handled(request, <<>>, Thrown)
            ELSE RouteHandler(router, responses,
                              router.order[router.matcher.entries[handler.index + 1].fn].fn,
                              handler.params, request)
    IN CHOOSE done \in {respond(handler) :
                            handler \in {MatchClosure(router.matcher, pathname, 0).result}} : TRUE

\* fetch(request), up to the promise it returns: the request as the handler
\* left it, the functions called, and the value the promise is settled with.
\* handler is the value of the one call matcher(pathname).
HttpFetch(router, responses, request) ==
    LET pathname == URLPathname(request.url)
        respond(handler) ==
            IF handler.kind = "null" THEN notFound(router, request)
            ELSE IF handler.kind = "threw" THEN Handled(request, <<>>, Thrown)
            ELSE RouteHandler(router, responses,
                              router.order[router.matcher.entries[handler.index + 1].fn].fn,
                              handler.params, request)
    IN CHOOSE done \in {respond(handler) :
                            handler \in {MatchClosure(router.matcher, pathname, 0).result}} : TRUE

\* createHttpRouter(config): config.routes as its entries in insertion order.
createHttpRouter(config, nf, wm) ==
    LET order == ObjectEntries([n \in 1..Len(config) |-> config[n].pathname])
        made == createMatcher([n \in 1..Len(order) |-> order[n].route])
    IN [ready |-> ~made.threw, config |-> config, notFound |-> nf,
        wrongMethod |-> wm, order |-> order, matcher |-> made.matcher]

\* The pathnames and the configurations that the routes are made of.
HttpPatternPool ==
    { <<"/", "a">>, <<"/", ":", "a">>, <<"/", "a", "/", "*">> }

RouteConfigPool ==
    {StaticResponse, FunctionHandler, MethodHandlers({"GET"}), MethodHandlers({"POST"})}

HttpConfigs ==
    {cfg \in SeqsUpTo([pathname : HttpPatternPool, config : RouteConfigPool], MaxRoutes) :
        \A p, q \in 1..Len(cfg) : p # q => cfg[p].pathname # cfg[q].pathname}

\* The methods of requests: Request accepts every token that is not forbidden.
RequestMethods == {"GET", "POST", "constructor"}

\* The paths written in request URLs.
RequestPaths ==
    { <<>>,                                     \* http://host
      <<"/", "a">>,                             \* /a
      <<"/", "b">>,                             \* /b
      <<"/", "a", "/", "b">>,                   \* /a/b
      <<"/", "b", "/", ".", "/", "a">>,         \* /b/./a
      <<"/", "a", "/", "b", "/", ".", ".">> }   \* /a/b/..

\* new Request(url, {method})
Request(method, url) == [method |-> method, url |-> url, params |-> Undefined]

\* const router = createHttpRouter({routes, notFound, wrongMethod})
CreateHttpRouter(config, nf, wm) ==
    /\ ~httpRouter.ready
    /\ httpRouter' = createHttpRouter(config, nf, wm)
    /\ stored' = [k \in 1..Len(config) |->
                    IF config[k].config.kind = "response" THEN StoredResponse(k)
                    ELSE NoResponse]
    /\ UNCHANGED <<coreVars, linkVars, routerVars, browserVars, inflight>>

\* router.fetch(request): runs until it returns its promise.
Fetch(method, url) ==
    /\ httpRouter.ready
    /\ Len(inflight) < MaxInFlight
    /\ \E done \in {HttpFetch(httpRouter, stored, Request(method, url))} :
          inflight' = Append(inflight,
                             [request |-> done.request, ran |-> done.ran,
                              response |-> done.response, settled |-> FALSE])
    /\ UNCHANGED <<coreVars, linkVars, routerVars, browserVars, httpRouter, stored>>

\* The promise of fetch number n is settled with its response.
Settle(n) ==
    /\ n \in 1..Len(inflight)
    /\ ~inflight[n].settled
    /\ inflight' = [inflight EXCEPT ![n].settled = TRUE]
    /\ UNCHANGED <<coreVars, linkVars, routerVars, browserVars, httpRouter, stored>>

\* The caller reads the body of the response of fetch number n (text(), ...):
\* that object's body is used from then on.
ReadBody(n) ==
    /\ n \in 1..Len(inflight)
    /\ inflight[n].settled
    /\ inflight[n].response.kind = "response"
    /\ ~inflight[n].response.used
    /\ inflight' = [inflight EXCEPT ![n].response.used = TRUE]
    /\ stored' = IF inflight[n].response.object = "stored"
                 THEN [stored EXCEPT ![inflight[n].response.of].used = TRUE]
                 ELSE stored
    /\ UNCHANGED <<coreVars, linkVars, routerVars, browserVars, httpRouter>>

\* The caller lets go of request and response number n.
Release(n) ==
    /\ n \in 1..Len(inflight)
    /\ inflight[n].settled
    /\ inflight' = [m \in 1..(Len(inflight) - 1) |->
                      IF m < n THEN inflight[m] ELSE inflight[m + 1]]
    /\ UNCHANGED <<coreVars, linkVars, routerVars, browserVars, httpRouter, stored>>

HttpNext ==
    \/ \E config \in HttpConfigs, nf, wm \in {"default", "config"} :
            CreateHttpRouter(config, nf, wm)
    \/ \E method \in RequestMethods, url \in RequestPaths : Fetch(method, url)
    \/ \E n \in 1..MaxInFlight : Settle(n)
    \/ \E n \in 1..MaxInFlight : ReadBody(n)
    \/ \E n \in 1..MaxInFlight : Release(n)

HttpSpec == Init /\ [][HttpNext]_vars

---------------------------------------------------------------------------
(* mod.ts: createRouter, the matcher that the class Router compiles.       *)

\* `(?<_splat>.*)`
RouterSplatGroup == NamedGroup(<<"_", "s", "p", "l", "a", "t">>, ".", 0, FALSE)

\* The callback of route.split("/").map(...): the source of one segment and
\* the new value of the counter i.
RouterMapSegment(segment, i) ==
    IF segment = <<"*">> THEN [src |-> <<RouterSplatGroup>>, i |-> i + 1]
    ELSE LET match == NAMED_SEGMENT(segment)
         IN IF match.found
            THEN [src |-> <<NamedGroup(match.name, "[^/]", 1, TRUE)>>, i |-> i + 1]
            ELSE [src |-> escape(segment), i |-> i]

RECURSIVE RouterMapSegments(_, _, _)
RouterMapSegments(segments, k, i) ==
    IF k > Len(segments) THEN [parts |-> <<>>, i |-> i]
    ELSE LET one == RouterMapSegment(segments[k], i)
             rest == RouterMapSegments(segments, k + 1, one.i)
         IN [parts |-> <<one.src>> \o rest.parts, i |-> rest.i]

RECURSIVE RouterMapEntries(_, _, _, _)
RouterMapEntries(entries, n, i, j) ==
    IF n > Len(entries) THEN [alts |-> <<>>, mapping |-> <<>>]
    ELSE LET segs == RouterMapSegments(Split(entries[n].route, Slash), 1, i + 1)
             rest == RouterMapEntries(entries, n + 1, segs.i, j + 1)
         IN [alts |-> <<Anchored(Join(segs.parts, Ch(Slash)))>> \o rest.alts,
             mapping |-> (i :> j) @@ rest.mapping]

\* new RegExp(source) is a SyntaxError when one alternative has two groups of
\* the same name.
DuplicateGroupName(alt) ==
    \E p, q \in 1..Len(alt) :
        p # q /\ alt[p].t = "group" /\ alt[q].t = "group" /\ alt[p].name = alt[q].name

\* match.groups ?? {}, with `_splat` moved to `*`: every group name of the
\* expression is a key, those that did not take part with the value undefined.
RouterGroups(groups) ==
    LET public(key) == IF key = RouterSplatGroup.name THEN <<"*">> ELSE key
        keys == {public(groups[n].key) : n \in 1..Len(groups)}
    IN [key \in keys |->
            (CHOOSE n \in 1..Len(groups) : public(groups[n].key) = key)]

\* (pathname) => ... of createRouter.
RouterClosure(m, pathname) ==
    IF m.empty THEN NullResult
    ELSE LET respond(x) ==
                 IF x.isNull THEN NullResult
                 ELSE IF (FindIndex(x.match) - 1) \notin DOMAIN m.mapping THEN ThrowResult
                 ELSE [kind |-> "match",
                       index |-> m.mapping[FindIndex(x.match) - 1],
                       params |-> [key \in DOMAIN RouterGroups(x.groups) |->
                                      x.groups[RouterGroups(x.groups)[key]].value]]
         IN CHOOSE r \in {respond(x) : x \in {RegExpExec(m.regex, pathname, 0)}} : TRUE

\* createRouter(routes), routes given as its keys in insertion order.
createRouter(keys) ==
    LET entries == ObjectEntries(keys)
        built == RouterMapEntries(entries, 1, 0, 0)
    IN IF Len(entries) = 0 THEN [threw |-> FALSE, matcher |-> NoMatcher]
       ELSE IF \E a \in 1..Len(built.alts) : DuplicateGroupName(built.alts[a])
       THEN [threw |-> TRUE, matcher |-> NoMatcher]
       ELSE [threw |-> FALSE,
             matcher |-> [empty |-> FALSE,
                          entries |-> entries,
                          regex |-> NewRegExp(Join(built.alts, Tok("|", "", <<>>))),
                          mapping |-> built.mapping]]

---------------------------------------------------------------------------
(* The class Router for HTTP requests: registrations and fetch.            *)

MaxRegistrations == 3

\* Faulty variant: #route without `this.#matcher = null`.
RouterRouteKeepsMatcher(r, method, pathname, handler) ==
    LET p == IF Len(pathname) = 0 \/ pathname[1] # Slash
             THEN <<Slash>> \o pathname ELSE pathname
        known == \E n \in 1..Len(r.routes) : r.routes[n].pathname = p
        made == IF known THEN r.routes
                ELSE Append(r.routes, [pathname |-> p, handlers |-> <<>>])
    IN [r EXCEPT !.routes =
                    [n \in 1..Len(made) |->
                        IF made[n].pathname = p
                        THEN [made[n] EXCEPT !.handlers = (method :> handler) @@ @]
                        ELSE made[n]]]

\* #route(method, pathname, handler): the pathname is given a leading slash,
\* its handler map is made if there is none, the handler is stored under the
\* method, and the matcher is forgotten.
RouterRoute(r, method, pathname, handler) ==
    LET p == IF Len(pathname) = 0 \/ pathname[1] # Slash
             THEN <<Slash>> \o pathname ELSE pathname
        known == \E n \in 1..Len(r.routes) : r.routes[n].pathname = p
        made == IF known THEN r.routes
                ELSE Append(r.routes, [pathname |-> p, handlers |-> <<>>])
    IN [r EXCEPT !.routes =
                    [n \in 1..Len(made) |->
                        IF made[n].pathname = p
                        THEN [made[n] EXCEPT !.handlers = (method :> handler) @@ @]
                        ELSE made[n]],
                 !.matcher = [null |-> TRUE, m |-> NoMatcher]]

\* #getMatcher(): the matcher kept, or one compiled from #routes and kept;
\* a throw of createRouter leaves #matcher as it was.
RouterGetMatcher(r) ==
    IF ~r.matcher.null THEN [threw |-> FALSE, router |-> r]
    ELSE LET order == ObjectEntries([n \in 1..Len(r.routes) |-> r.routes[n].pathname])
             made == createRouter([n \in 1..Len(order) |-> order[n].route])
         IN IF made.threw THEN [threw |-> TRUE, router |-> r]
            ELSE [threw |-> FALSE,
                  router |-> [r EXCEPT !.matcher = [null |-> FALSE, m |-> made.matcher]]]

\* What a fetch dispatched to.
Dispatched(kind, who, handler) == [kind |-> kind, who |-> who, handler |-> handler]

\* fetch(request) on a router whose matcher is m: the function that is called
\* with the request. The handler map of the matched pathname is read when
\* the request arrives.
RouterDispatch(r, m, method, url) ==
    LET respond(match) ==
            IF match.kind = "null" THEN Dispatched("called", "notFound", 0)
            ELSE IF match.kind = "threw" THEN Dispatched("threw", "", 0)
            ELSE LET handlers == (CHOOSE route \in {r.routes[n] : n \in 1..Len(r.routes)} :
                                    route.pathname = m.entries[match.index + 1].route).handlers
                 IN IF method \in DOMAIN handlers
                    THEN Dispatched("called", "handler", handlers[method])
                    ELSE IF method \in ObjectPrototype
                    THEN Dispatched("called", "Object.prototype", 0)
                    ELSE Dispatched("called", "wrongMethod", 0)
    IN CHOOSE d \in {respond(match) : match \in {RouterClosure(m, URLPathname(url))}} : TRUE

\* The arguments of get, post, ... and the requests of the model.
RegisterMethods == {"GET", "POST"}

RegisterPathnames ==
    { <<"a">>, <<"/", "a">>, <<"/", ":", "a">>, <<"/", "a", "/", "*">>,
      <<"/", ":", "b", "/", ":", "b">> }

RouterRequestPaths ==
    { <<"/", "a">>, <<"/", "b">>, <<"/", "a", "/", "b">> }

\* new Router(): the constructor queues the microtask that compiles.
NewRouter ==
    /\ ~classRouter.made
    /\ classRouter' = [NoRouter EXCEPT !.made = TRUE, !.microtask = TRUE]
    /\ UNCHANGED <<coreVars, linkVars, httpVars, browserVars, registered, answer>>

\* router.get(pathname, handler), router.post(pathname, handler), ...: the
\* handler is named by the number of the registration.
Register(method, pathname) ==
    /\ classRouter.made
    /\ Len(registered) < MaxRegistrations
    /\ classRouter' = RouterRoute(classRouter, method, pathname, Len(registered) + 1)
    /\ registered' = Append(registered, [method |-> method, pathname |-> pathname])
    /\ UNCHANGED <<coreVars, linkVars, httpVars, browserVars, answer>>

\* The queued microtask runs this.#getMatcher().
Microtask ==
    /\ classRouter.microtask
    /\ \E got \in {RouterGetMatcher(classRouter)} :
          classRouter' = [got.router EXCEPT !.microtask = FALSE]
    /\ UNCHANGED <<coreVars, linkVars, httpVars, browserVars, registered, answer>>

\* router.fetch(request), up to the call of the function it dispatches to.
RouterFetch(method, url) ==
    /\ classRouter.made
    /\ \E got \in {RouterGetMatcher(classRouter)} :
          /\ classRouter' = got.router
          /\ \E d \in {IF got.threw THEN Dispatched("threw", "", 0)
                       ELSE RouterDispatch(got.router, got.router.matcher.m, method, url)} :
                answer' = [made |-> TRUE, method |-> method, url |-> url,
                           at |-> Len(registered),
                           kind |-> d.kind, who |-> d.who, handler |-> d.handler]
    /\ UNCHANGED <<coreVars, linkVars, httpVars, browserVars, registered>>

RouterNext ==
    \/ NewRouter
    \/ \E method \in RegisterMethods, pathname \in RegisterPathnames :
            Register(method, pathname)
    \/ Microtask
    \/ \E method \in RegisterMethods, url \in RouterRequestPaths : RouterFetch(method, url)

RouterSpec == Init /\ [][RouterNext]_vars

---------------------------------------------------------------------------
(* createBrowserRouter: navigate, redirect, start, stop, link clicks and   *)
(* popstate events.                                                        *)

\* The navigations of one run: MaxNavigations when the router is driven by
\* clicks and popstate events alone, MaxBrowserNavigations when by every
\* call and event.
MaxNavigations == 3
MaxBrowserNavigations == 2

\* Faulty variant: the history is written when the navigation begins.
NewNavigationHistoryFirst(kind, pathname, isRedirect, handler) ==
    [kind |-> kind, pathname |-> pathname, isRedirect |-> isRedirect,
     handler |-> handler, stage |-> "pending", aborted |-> FALSE,
     history |-> IF isRedirect THEN "replaceState" ELSE "pushState",
     scrolled |-> FALSE, superseded |-> FALSE, abortedInFlight |-> FALSE,
     stopped |-> FALSE, hash |-> "unset", oldHash |-> "", oldPathname |-> <<>>,
     hashAssigned |-> FALSE, hashchange |-> FALSE]

\* One run of navigate or onPopState from `controller = new AbortController()`
\* on: its arguments, the function that handle calls ("route", "notFound" or
\* "none"), how far it has come ("pending": the handler is running,
\* "completed": the handler is done and the code after the await is to run,
\* "returned": navigate is done and the rest of onClick is to run,
\* "finished"), signal.aborted, the history method it has called and whether
\* it has called scrollTo. For a click: link.hash, the hash and pathname of
\* oldLocation, and whether onClick has assigned location.hash and
\* dispatched hashchange. init.hash is "unset" for navigate and redirect.
\* History of the run: superseded (another navigation began while the
\* handler ran), abortedInFlight (the signal was aborted when the handler
\* finished), stopped (stop() was called while the handler ran).
NewNavigation(kind, pathname, isRedirect, handler) ==
    [kind |-> kind, pathname |-> pathname, isRedirect |-> isRedirect,
     handler |-> handler, stage |-> "pending", aborted |-> FALSE,
     history |-> "none", scrolled |-> FALSE, superseded |-> FALSE,
     abortedInFlight |-> FALSE, stopped |-> FALSE,
     hash |-> "unset", oldHash |-> "", oldPathname |-> <<>>,
     hashAssigned |-> FALSE, hashchange |-> FALSE]

\* matcher(pathname) of the router: null or a handler. (The operators below
\* are given its value; the matcher returns the same for the same pathname.)
BrowserMatch(b, pathname) == MatchClosure(b.matcher, pathname, 0).result.kind

\* handle(pathname, signal), up to its await: the function it calls, handler
\* being the value of matcher(pathname).
BrowserHandle(b, handler) ==
    IF handler = "null" THEN (IF b.notFound THEN "notFound" ELSE "none")
    ELSE "route"

\* Faulty variant: the controller is replaced without `controller?.abort()`.
AbortControllerSkipped(b, navs) == navs

\* controller?.abort()
AbortController(b, navs) ==
    IF b.controller = 0 THEN navs
    ELSE [navs EXCEPT ![b.controller].aborted = TRUE]

\* navigate(init, isRedirect), up to `await handle(init.pathname, signal)`.
BrowserNavigate(b, navs, kind, pathname, isRedirect, handler) ==
    [router |-> [b EXCEPT !.controller = Len(navs) + 1],
     navs |-> Append(AbortController(b, navs),
                     NewNavigation(kind, pathname, isRedirect, BrowserHandle(b, handler)))]

\* Faulty variant: navigate without `if (signal.aborted) return`.
NavigateResumeUnchecked(nav) ==
    [nav EXCEPT !.stage = IF nav.kind = "click" THEN "returned" ELSE "finished",
                !.history = IF nav.isRedirect THEN "replaceState" ELSE "pushState",
                !.scrolled = TRUE]

\* navigate after the await: nothing if the signal is aborted, else
\* history.replaceState or history.pushState, and scrollTo(0, 0). The
\* await in onClick is next for a click.
NavigateResume(nav) ==
    IF nav.aborted
    THEN [nav EXCEPT !.stage = IF nav.kind = "click" THEN "returned" ELSE "finished"]
    ELSE [nav EXCEPT !.stage = IF nav.kind = "click" THEN "returned" ELSE "finished",
                     !.history = IF nav.isRedirect THEN "replaceState" ELSE "pushState",
                     !.scrolled = TRUE]

\* The url that navigate gives to the history: location.href with the
\* pathname of init, and with the hash of init if it has one. start() gives
\* location itself as init, whose fields are read when the lines run.
NavigateUrl(nav, loc, h) ==
    [pathname |-> IF nav.kind = "start" THEN loc ELSE nav.pathname,
     hash |-> IF nav.hash = "unset" THEN h ELSE nav.hash]

\* onClick after `await navigate(link, false)`, loc and h being the pathname
\* and hash of location then: if the hash differs from that of oldLocation,
\* location.hash is assigned link.hash (if not empty), and hashchange is
\* dispatched if the pathname is that of oldLocation.
OnClickResume(nav, loc, h) ==
    IF nav.oldHash # h
    THEN [nav |-> [nav EXCEPT !.stage = "finished",
                              !.hashAssigned = nav.hash # "",
                              !.hashchange = nav.oldPathname = loc],
          hash |-> IF nav.hash # "" THEN nav.hash ELSE h]
    ELSE [nav |-> [nav EXCEPT !.stage = "finished"], hash |-> h]

\* Faulty variant: the router takes every event.
LeftToBrowserNever(b, handler) == FALSE

\* matcher(pathname) === null && !notFound: the router leaves the event to
\* the browser.
LeftToBrowser(b, handler) == handler = "null" /\ ~b.notFound

\* onPopState(event), up to `await handle(location.pathname, signal)`.
BrowserOnPopState(b, navs, pathname, handler) ==
    IF LeftToBrowser(b, handler)
    THEN [router |-> b, navs |-> navs, prevented |-> FALSE]
    ELSE [router |-> [b EXCEPT !.controller = Len(navs) + 1],
          navs |-> Append(AbortController(b, navs),
                          NewNavigation("popstate", pathname, FALSE,
                                        BrowserHandle(b, handler))),
          prevented |-> TRUE]

\* onClick(event) for a click that passes the tests of the link and the
\* event, up to the await in navigate(link, false); loc and h are the
\* pathname and hash of oldLocation.
BrowserOnClick(b, navs, pathname, linkHash, handler, loc, h) ==
    IF LeftToBrowser(b, handler)
    THEN [router |-> b, navs |-> navs, prevented |-> FALSE]
    ELSE LET began == BrowserNavigate(b, navs, "click", pathname, FALSE, handler)
         IN [router |-> began.router,
             navs |-> [began.navs EXCEPT ![Len(began.navs)].hash = linkHash,
                                         ![Len(began.navs)].oldHash = h,
                                         ![Len(began.navs)].oldPathname = loc],
             prevented |-> TRUE]

\* createBrowserRouter(config): config.routes as its keys in insertion order.
createBrowserRouter(keys, nf) ==
    LET order == ObjectEntries(keys)
        made == createMatcher([n \in 1..Len(order) |-> order[n].route])
    IN [created |-> ~made.threw, routes |-> keys, notFound |-> nf,
        matcher |-> made.matcher, controller |-> 0, listening |-> FALSE]

BrowserPatternPool == { <<"/", "a">>, <<"/", ":", "a">> }

BrowserRoutes ==
    {<<>>} \cup {ks \in SeqsUpTo(BrowserPatternPool, MaxRoutes) :
                    \A p, q \in 1..Len(ks) : p # q => ks[p] # ks[q]}

BrowserPaths == { <<"/", "a">>, <<"/", "a", "/", "b">> }

\* The hashes of links and of history entries.
Hashes == { "", "#x", "#y" }

\* History: every navigation whose handler is running is superseded by the
\* navigation that begins now.
Superseding(navs) ==
    [n \in 1..Len(navs) |->
        IF navs[n].stage = "pending" /\ navs[n].handler # "none"
        THEN [navs[n] EXCEPT !.superseded = TRUE]
        ELSE navs[n]]

\* History: stop() is called while these handlers are running.
Stopping(navs) ==
    [n \in 1..Len(navs) |->
        IF navs[n].stage = "pending" THEN [navs[n] EXCEPT !.stopped = TRUE]
        ELSE navs[n]]

\* const router = createBrowserRouter({routes, notFound})
CreateBrowserRouter(keys, nf) ==
    /\ ~browserRouter.created
    /\ browserRouter' = createBrowserRouter(keys, nf)
    /\ UNCHANGED <<coreVars, linkVars, httpVars, routerVars, navigations, location,
                   hash, event>>

\* router.start(): the listeners are added, then navigate(location, true).
Start ==
    /\ browserRouter.created
    /\ ~browserRouter.listening
    /\ Len(navigations) < MaxNavigations
    /\ \E handler \in {BrowserMatch(browserRouter, location)} :
          \E began \in {BrowserNavigate([browserRouter EXCEPT !.listening = TRUE],
                                        Superseding(navigations), "start", location,
                                        TRUE, handler)} :
              /\ browserRouter' = began.router
              /\ navigations' = began.navs
    /\ UNCHANGED <<coreVars, linkVars, httpVars, routerVars, location, hash, event>>

\* router.navigate(pathname) and router.redirect(pathname)
Navigate(pathname, isRedirect) ==
    /\ browserRouter.created
    /\ Len(navigations) < MaxNavigations
    /\ \E handler \in {BrowserMatch(browserRouter, pathname)} :
          \E began \in {BrowserNavigate(browserRouter, Superseding(navigations),
                                        IF isRedirect THEN "redirect" ELSE "navigate",
                                        pathname, isRedirect, handler)} :
              /\ browserRouter' = began.router
              /\ navigations' = began.navs
    /\ UNCHANGED <<coreVars, linkVars, httpVars, routerVars, location, hash, event>>

\* A click on a same-origin link (pathname, linkHash) that passes the tests
\* of onClick.
Click(pathname, linkHash) ==
    /\ browserRouter.listening
    /\ \E handler \in {BrowserMatch(browserRouter, pathname)} :
          \E began \in {BrowserOnClick(browserRouter, Superseding(navigations),
                                       pathname, linkHash, handler, location, hash)} :
              /\ Len(began.navs) <= MaxNavigations
              /\ browserRouter' = began.router
              /\ navigations' = began.navs
              /\ event' = [kind |-> "click", pathname |-> pathname,
                           prevented |-> began.prevented,
                           began |-> Len(began.navs) > Len(navigations)]
    /\ UNCHANGED <<coreVars, linkVars, httpVars, routerVars, location, hash>>

\* The user goes back or forward to an entry with this pathname and hash:
\* the browser changes the location and fires popstate.
PopState(pathname, entryHash) ==
    /\ browserRouter.listening
    /\ location' = pathname
    /\ hash' = entryHash
    /\ \E handler \in {BrowserMatch(browserRouter, pathname)} :
          \E began \in {BrowserOnPopState(browserRouter, Superseding(navigations),
                                          pathname, handler)} :
              /\ Len(began.navs) <= MaxNavigations
              /\ browserRouter' = began.router
              /\ navigations' = began.navs
              /\ event' = [kind |-> "popstate", pathname |-> pathname,
                           prevented |-> began.prevented,
                           began |-> Len(began.navs) > Len(navigations)]
    /\ UNCHANGED <<coreVars, linkVars, httpVars, routerVars>>

\* The handler of navigation n (or the empty await, if there is none) is done.
\* onPopState has nothing more to do then.
HandlerCompletes(n) ==
    /\ n \in 1..Len(navigations)
    /\ navigations[n].stage = "pending"
    /\ navigations' = [navigations EXCEPT
                          ![n].stage = IF navigations[n].kind = "popstate"
                                       THEN "finished" ELSE "completed",
                          ![n].abortedInFlight = navigations[n].aborted]
    /\ UNCHANGED <<coreVars, linkVars, httpVars, routerVars, browserRouter, location,
                   hash, event>>

\* The handler of navigation n throws or rejects, and so do navigate and
\* onClick.
HandlerThrows(n) ==
    /\ n \in 1..Len(navigations)
    /\ navigations[n].stage = "pending"
    /\ navigations[n].handler # "none"
    /\ navigations' = [navigations EXCEPT ![n].stage = "finished",
                                          ![n].abortedInFlight = navigations[n].aborted]
    /\ UNCHANGED <<coreVars, linkVars, httpVars, routerVars, browserRouter, location,
                   hash, event>>

\* navigate number n runs on after its await.
Resume(n) ==
    /\ n \in 1..Len(navigations)
    /\ navigations[n].stage = "completed"
    /\ \E nav \in {NavigateResume(navigations[n])} :
          /\ navigations' = [navigations EXCEPT ![n] = nav]
          /\ location' = IF nav.history # "none"
                         THEN NavigateUrl(nav, location, hash).pathname ELSE location
          /\ hash' = IF nav.history # "none"
                     THEN NavigateUrl(nav, location, hash).hash ELSE hash
    /\ UNCHANGED <<coreVars, linkVars, httpVars, routerVars, browserRouter, event>>

\* onClick of navigation n runs on after `await navigate(link, false)`.
ClickResume(n) ==
    /\ n \in 1..Len(navigations)
    /\ navigations[n].stage = "returned"
    /\ \E done \in {OnClickResume(navigations[n], location, hash)} :
          /\ navigations' = [navigations EXCEPT ![n] = done.nav]
          /\ hash' = done.hash
    /\ UNCHANGED <<coreVars, linkVars, httpVars, routerVars, browserRouter, location,
                   event>>

\* router.stop()
Stop ==
    /\ browserRouter.listening
    /\ navigations' = AbortController(browserRouter, Stopping(navigations))
    /\ browserRouter' = [browserRouter EXCEPT !.listening = FALSE, !.controller = 0]
    /\ UNCHANGED <<coreVars, linkVars, httpVars, routerVars, location, hash, event>>

BrowserNext ==
    \/ \E keys \in BrowserRoutes, nf \in BOOLEAN : CreateBrowserRouter(keys, nf)
    \/ Start /\ Len(navigations') <= MaxBrowserNavigations
    \/ \E pathname \in BrowserPaths, isRedirect \in BOOLEAN :
            Navigate(pathname, isRedirect) /\ Len(navigations') <= MaxBrowserNavigations
    \/ \E pathname \in BrowserPaths, linkHash \in Hashes :
            Click(pathname, linkHash) /\ Len(navigations') <= MaxBrowserNavigations
    \/ \E pathname \in BrowserPaths, entryHash \in Hashes :
            PopState(pathname, entryHash) /\ Len(navigations') <= MaxBrowserNavigations
    \/ \E n \in 1..MaxNavigations : HandlerCompletes(n)
    \/ \E n \in 1..MaxNavigations : HandlerThrows(n)
    \/ \E n \in 1..MaxNavigations : Resume(n)
    \/ \E n \in 1..MaxNavigations : ClickResume(n)
    \/ Stop

BrowserSpec == Init /\ [][BrowserNext]_vars

\* A started router with a route and notFound, driven by link clicks and
\* popstate events.
ClickRoutes == { << <<"/", "a">> >> }

ClickNext ==
    \/ \E keys \in ClickRoutes : CreateBrowserRouter(keys, TRUE)
    \/ Start
    \/ \E pathname \in BrowserPaths, linkHash \in Hashes : Click(pathname, linkHash)
    \/ \E pathname \in BrowserPaths, entryHash \in Hashes : PopState(pathname, entryHash)
    \/ \E n \in 1..MaxNavigations : HandlerCompletes(n)
    \/ \E n \in 1..MaxNavigations : Resume(n)
    \/ \E n \in 1..MaxNavigations : ClickResume(n)

ClickSpec == Init /\ [][ClickNext]_vars

---------------------------------------------------------------------------
(* route.ts: createRoute and href, and the segment mapping of matcher.ts,  *)
(* applied to one pattern.                                                 *)

MaxPieces == 2

\* The characters that encodeURIComponent leaves as they are.
UriUnreserved ==
    Letters \cup Digits \cup {"-", "_", ".", "!", "~", "*", "'", "(", ")"}

\* The UTF-8 bytes, in hexadecimal, of the other characters of the model.
Utf8Hex(c) ==
    CASE c = " " -> <<"2", "0">>
      [] c = "#" -> <<"2", "3">>
      [] c = "%" -> <<"2", "5">>
      [] c = "/" -> <<"2", "F">>
      [] c = ":" -> <<"3", "A">>
      [] c = "?" -> <<"3", "F">>
      [] c = "\n" -> <<"0", "A">>

\* encodeURIComponent(value)
RECURSIVE encodeURIComponent(_)
encodeURIComponent(value) ==
    IF Len(value) = 0 THEN <<>>
    ELSE (IF value[1] \in UriUnreserved THEN <<value[1]>>
          ELSE <<"%">> \o Utf8Hex(value[1]))
         \o encodeURIComponent(Tail(value))

\* The callback of route.segments.map(...) in href.
HrefSegment(segment, params) ==
    CASE segment.type = "splat" -> params[<<"*">>]
      [] segment.type = "param" -> encodeURIComponent(params[segment.name])
      [] OTHER -> segment.value

\* href(route, params)
href(route, params) ==
    LET joined == Join([p \in 1..Len(route.segments) |->
                           HrefSegment(route.segments[p], params)], Slash)
        url == IF joined = <<>> THEN <<Slash>> ELSE joined
    IN IF url[1] # Slash THEN <<Slash>> \o url ELSE url

\* The keys that Params<Path> asks for: the parameter names and "*".
ParamKeys(route) ==
    {route.segments[p].name :
        p \in {q \in 1..Len(route.segments) : route.segments[q].type = "param"}}
    \cup {<<"*">> : p \in {q \in 1..Len(route.segments) :
                              route.segments[q].type = "splat"}}

\* The pieces of the patterns: the three kinds, and near misses of each.
PiecePool ==
    { <<>>,                     \* ""
      <<"a">>,                  \* "a"
      <<"*">>,                  \* "*"
      <<"*", "*">>,             \* "**"
      <<"a", "*">>,             \* "a*"
      <<":">>,                  \* ":"
      <<":", "a">>,             \* ":a"
      <<":", "A", "1">>,        \* ":A1"
      <<":", "1", "a">>,        \* ":1a"
      <<":", "a", "-", "b">> }  \* ":a-b"

RoutePaths == {Join(pieces, Slash) : pieces \in SeqsUpTo(PiecePool, MaxPieces)}

\* Parameter values: plain, with a hyphen, with a space, with a slash, with
\* `?`, with `%`.
ParamValues ==
    { <<"a">>, <<"b", "-", "c">>, <<"a", " ", "b">>, <<"a", "/", "b">>, <<"a", "?", "b">>, <<"%">> }

\* const route = createRoute(path)
CreateRoute(path) ==
    /\ ~routeMade.made
    /\ \E r \in {createRoute(path)} :
          routeMade' = [made |-> TRUE, threw |-> r.threw, path |-> r.path,
                        segments |-> IF r.threw THEN <<>> ELSE r.segments]
    /\ UNCHANGED <<coreVars, httpVars, routerVars, browserVars, lowering, link, roundTrip>>

\* route.split("/").map(...) of createMatcher in matcher.ts, for the same
\* pattern as the one route of its table.
MapRoute ==
    /\ routeMade.made
    /\ ~lowering.made
    /\ \E mapped \in {MapSegments(Split(routeMade.path, Slash), 0, 1)} :
          lowering' = [made |-> TRUE, threw |-> mapped.threw, parts |-> mapped.parts]
    /\ UNCHANGED <<coreVars, httpVars, routerVars, browserVars, routeMade, link, roundTrip>>

\* href(route, params), params having the keys of the route.
Href ==
    /\ routeMade.made
    /\ ~routeMade.threw
    /\ ~link.made
    /\ \E params \in [ParamKeys(routeMade) -> ParamValues] :
          link' = [made |-> TRUE, params |-> params, url |-> href(routeMade, params)]
    /\ UNCHANGED <<coreVars, httpVars, routerVars, browserVars, routeMade, lowering,
                   roundTrip>>

\* createMatcher([route])(href(route, params)), on the result of href.
MatchHref ==
    /\ link.made
    /\ ~roundTrip.made
    /\ \E found \in {MatchClosure(routeCreateMatcher(<<routeMade>>), link.url, 0)} :
          roundTrip' = [made |-> TRUE, result |-> found.result]
    /\ UNCHANGED <<coreVars, httpVars, routerVars, browserVars, routeMade, lowering, link>>

RouteNext ==
    \/ \E path \in RoutePaths : CreateRoute(path)
    \/ MapRoute
    \/ Href
    \/ MatchHref

RouteSpec == Init /\ [][RouteNext]_vars

---------------------------------------------------------------------------
(* Notions the properties are stated with. *)

\* The route table of the matcher: its patterns in table order.
Table == [n \in 1..Len(matcher.entries) |-> matcher.entries[n].route]

\* The matcher that the module in use builds from a table given in order.
TableMatcher(table) ==
    IF api = "route.ts"
    THEN routeCreateMatcher([n \in 1..Len(table) |-> createRoute(table[n])])
    ELSE CompileEntries([n \in 1..Len(table) |-> [route |-> table[n], fn |-> n]]).matcher

\* What a fresh matcher built from the table returns for the pathname.
FreshResult(table, pathname) == MatchClosure(TableMatcher(table), pathname, 0).result

\* The pattern, alone in a table, matches the whole pathname.
MatchesAlone(pattern, pathname) == FreshResult(<<pattern>>, pathname).kind = "match"

Returned(kind) == call.made /\ call.result.kind = kind

\* The entry (from 1) that the returning call chose.
Chosen == call.result.index + 1

\* The segments of a pattern and their kinds, by the pattern syntax.
SegmentsOf(pattern) == Split(pattern, Slash)

IsSplat(segment) == segment = <<"*">>

IsParam(segment) == ~IsSplat(segment) /\ NAMED_SEGMENT(segment).found

IsStatic(segment) == ~IsSplat(segment) /\ ~IsParam(segment)

ParamName(segment) == SubSeq(segment, 2, Len(segment))

AllStatic(pattern) ==
    \A p \in 1..Len(SegmentsOf(pattern)) : IsStatic(SegmentsOf(pattern)[p])

EndsInSplat(pattern) == IsSplat(SegmentsOf(pattern)[Len(SegmentsOf(pattern))])

MisplacedSplat(pattern) ==
    \E p \in 1..(Len(SegmentsOf(pattern)) - 1) : IsSplat(SegmentsOf(pattern)[p])

\* The pieces of the pathname between its slashes.
Pieces(pathname) == Split(pathname, Slash)

\* The pathname from its n-th piece on.
Remainder(pathname, n) ==
    Join(SubSeq(Pieces(pathname), n, Len(Pieces(pathname))), Slash)

---------------------------------------------------------------------------
(* C1: for every route table and every pathname, the matcher returns the   *)
(* entry of the lowest-index pattern that alone matches the whole pathname *)
(* (null when none does), with the handler registered for that pattern; a  *)
(* later pattern that also matches is never chosen, and with two patterns  *)
(* that both match, the table in the other order chooses the other one.    *)
C1_FirstRegisteredWins ==
    call.made =>
        LET hits == {k \in 1..Len(Table) : MatchesAlone(Table[k], call.pathname)}
        IN /\ hits = {} => call.result.kind = "null"
           /\ hits # {} =>
                /\ call.result.kind = "match"
                /\ Chosen = Min(hits)
                /\ routes[matcher.entries[Chosen].fn] = Table[Chosen]
           /\ Len(Table) = 2 /\ hits = {1, 2} =>
                LET other == FreshResult(<<Table[2], Table[1]>>, call.pathname)
                IN other.kind = "match" /\ other.index = 0

\* A splat registered first wins over a static pattern that also matches.
C1_Witness ==
    /\ Returned("match")
    /\ Table = << <<"*">>, <<"a">> >>
    /\ call.pathname = <<"a">>
    /\ Chosen = 1

(* C2: on a match, the keys of params are exactly the parameter names of   *)
(* the chosen pattern, plus "*" if and only if that pattern ends in a      *)
(* splat; each parameter maps to the piece of the pathname at a segment    *)
(* bearing its name and "*" to the remainder of the pathname; no key comes *)
(* from another pattern of the table.                                      *)
C2_ParamsOfChosenPattern ==
    Returned("match") =>
        LET segs == SegmentsOf(Table[Chosen])
            pieces == Pieces(call.pathname)
            params == call.result.params
            at(name) == {p \in 1..Len(segs) : IsParam(segs[p]) /\ ParamName(segs[p]) = name}
            names == {ParamName(segs[p]) : p \in {q \in 1..Len(segs) : IsParam(segs[q])}}
        IN /\ DOMAIN params = names \cup (IF EndsInSplat(Table[Chosen]) THEN {<<"*">>} ELSE {})
           /\ \A name \in names :
                \E p \in at(name) : p <= Len(pieces) /\ params[name] = pieces[p]
           /\ EndsInSplat(Table[Chosen]) =>
                params[<<"*">>] = Remainder(call.pathname, Len(segs))

\* The second of two patterns that both end in a splat matched, and the first
\* has a parameter of its own.
C2_Witness ==
    /\ Returned("match")
    /\ Len(Table) = 2
    /\ Chosen = 2
    /\ EndsInSplat(Table[1]) /\ EndsInSplat(Table[2])
    /\ \E p \in 1..Len(SegmentsOf(Table[1])) : IsParam(SegmentsOf(Table[1])[p])
    /\ DOMAIN call.result.params = {<<"*">>}

(* C3: a matcher built from an empty route table returns null for every    *)
(* pathname, the empty string included.                                    *)
C3_EmptyTableNeverMatches ==
    call.made /\ Len(routes) = 0 => call.result.kind = "null"

C3_Witness ==
    /\ Returned("null")
    /\ Len(routes) = 0
    /\ call.pathname = <<>>

(* C4: a pattern made only of static segments is chosen only for the       *)
(* pathname equal to the pattern string, with empty params, and that       *)
(* pathname is always matched (by it or by an earlier pattern); a table    *)
(* holding only that pattern matches exactly that pathname. The root       *)
(* pattern "" is chosen only for the empty pathname.                       *)
C4_StaticMatchesExactly ==
    call.made =>
        \A k \in 1..Len(Table) :
            AllStatic(Table[k]) =>
                /\ Returned("match") /\ Chosen = k =>
                      call.pathname = Table[k] /\ call.result.params = <<>>
                /\ call.pathname = Table[k] => Returned("match") /\ Chosen <= k
                /\ Len(Table) = 1 => (Returned("match") <=> call.pathname = Table[k])

\* The root pattern matched the empty pathname.
C4_Witness ==
    /\ Returned("match")
    /\ Table = << <<>> >>
    /\ call.pathname = <<>>
    /\ call.result.params = <<>>

(* C5: a pattern of a static segment followed by a parameter is chosen     *)
(* only for a pathname of two pieces, the static text and one non-empty    *)
(* piece without a slash, which is reported under the parameter's name;    *)
(* every such pathname is matched; alone in its table the pattern matches  *)
(* exactly those pathnames (not the static text alone, not the static text *)
(* and a slash, not a pathname with a third piece).                        *)
C5_ParamIsOneNonEmptyPiece ==
    call.made =>
        \A k \in 1..Len(Table) :
            LET segs == SegmentsOf(Table[k])
                pieces == Pieces(call.pathname)
                fits == /\ Len(pieces) = 2
                        /\ pieces[1] = segs[1]
                        /\ pieces[2] # <<>>
            IN Len(segs) = 2 /\ IsStatic(segs[1]) /\ IsParam(segs[2]) =>
                /\ Returned("match") /\ Chosen = k =>
                      /\ fits
                      /\ call.result.params = (ParamName(segs[2]) :> pieces[2])
                /\ fits => Returned("match") /\ Chosen <= k
                /\ Len(Table) = 1 => (Returned("match") <=> fits)

\* The pattern a/:a matched a/a with {a: "a"}.
C5_Witness ==
    /\ Returned("match")
    /\ Table = << <<"a", "/", ":", "a">> >>
    /\ call.pathname = <<"a", "/", "a">>
    /\ call.result.params = (<<"a">> :> <<"a">>)

(* C6: a pattern of a static prefix followed by the splat is chosen only   *)
(* for a pathname that is the prefix, a slash and a remainder, reported    *)
(* whole under "*"; every such pathname is matched, whatever the remainder *)
(* (empty, one piece or several); the bare prefix is not matched.          *)
C6_SplatMatchesEveryRemainder ==
    call.made =>
        \A k \in 1..Len(Table) :
            LET segs == SegmentsOf(Table[k])
                pieces == Pieces(call.pathname)
                fits == Len(pieces) >= 2 /\ pieces[1] = segs[1]
            IN Len(segs) = 2 /\ IsStatic(segs[1]) /\ IsSplat(segs[2]) =>
                /\ Returned("match") /\ Chosen = k =>
                      /\ fits
                      /\ call.result.params = (<<"*">> :> Remainder(call.pathname, 2))
                /\ fits => Returned("match") /\ Chosen <= k
                /\ Len(Table) = 1 => (Returned("match") <=> fits)

HasSyntaxChar(pattern) == \E p \in 1..Len(pattern) : pattern[p] \in SyntaxChars

LeadingSlash(text) == Len(text) > 0 /\ text[1] = Slash

C10_SameResultEveryCall ==
    phase = "built" =>
        /\ lastIndex = 0
        /\ call.made =>
              /\ call.pathname \in DOMAIN seen
              /\ call.result = seen[call.pathname]

\* A repeated call that matched, after calls with two other pathnames.
C10_Witness ==
    /\ Returned("match")
    /\ call.repeat
    /\ Cardinality(DOMAIN seen) >= 3

(* C11: every call of a constructed matcher ends by returning null or a    *)
(* match result, never by throwing; for a pathname that no pattern of the  *)
(* table matches it returns null.                                          *)
C11_CallReturnsNullOrMatch ==
    call.made =>
        /\ call.result.kind \in {"null", "match"}
        /\ (\A k \in 1..Len(Table) : ~MatchesAlone(Table[k], call.pathname)) =>
              call.result.kind = "null"

\* A table of two patterns with capture groups returned null for a pathname of
\* several pieces that neither matches.
C11_Witness ==
    /\ Returned("null")
    /\ Table = << <<"a", "/", ":", "a">>, <<"a", "/", "*">> >>
    /\ call.pathname = <<".", "/", "a", "/", "a">>

---------------------------------------------------------------------------
(* Notions the properties of the HTTP router are stated with. *)

\* The pathname of the URL of request number n.
PathnameOf(n) == URLPathname(inflight[n].request.url)

\* The routes of the configuration, in its order, whose pattern alone matches
\* the pathname of request number n.
RoutesMatching(n) ==
    {k \in 1..Len(httpRouter.config) :
        MatchesAlone(httpRouter.config[k].pathname, PathnameOf(n))}

\* The route that answers request number n: the first that matches.
RouteOf(n) == Min(RoutesMatching(n))

ConfigOf(n) == httpRouter.config[RouteOf(n)].config

\* Request number n was answered by calling exactly this one function.
RanOnly(n, who, which, route) ==
    /\ Len(inflight[n].ran) = 1
    /\ inflight[n].ran[1].who = who
    /\ inflight[n].ran[1].which = which
    /\ inflight[n].ran[1].route = route

\* Request number n was answered by wrongMethod alone: the configured one, or
\* else the default one, whose answer has status 405.
RanWrongMethod(n) ==
    /\ RanOnly(n, "wrongMethod", httpRouter.wrongMethod, 0)
    /\ httpRouter.wrongMethod = "default" =>
          inflight[n].response.kind = "response" /\ inflight[n].response.status = 405

(* C12: a request whose pathname matches no route is answered by calling   *)
(* exactly the notFound responder, the configured one or else the default  *)
(* one, whose answer has status 404; no route handler and no wrongMethod   *)
(* is called for it.                                                       *)
C12_NoMatchCallsNotFound ==
    \A n \in 1..Len(inflight) :
        RoutesMatching(n) = {} =>
            /\ RanOnly(n, "notFound", httpRouter.notFound, 0)
            /\ httpRouter.notFound = "default" =>
                  inflight[n].response.kind = "response" /\ inflight[n].response.status = 404

\* A router with two routes and a configured wrongMethod answered 404 by its
\* default notFound to a request that matches neither route.
C12_Witness ==
    /\ Len(httpRouter.config) = 2
    /\ httpRouter.notFound = "default"
    /\ httpRouter.wrongMethod = "config"
    /\ \E n \in 1..Len(inflight) :
          /\ RoutesMatching(n) = {}
          /\ inflight[n].settled
          /\ inflight[n].response.status = 404

(* C13: for a request whose pathname matches a route configured with a map *)
(* from methods to handlers, the handler registered for the request's      *)
(* method is called if there is one, and otherwise wrongMethod (configured *)
(* or default, the default answering 405); notFound is not called.         *)
C13_MethodMapDispatch ==
    \A n \in 1..Len(inflight) :
        RoutesMatching(n) # {} /\ ConfigOf(n).kind = "methods" =>
            IF inflight[n].request.method \in ConfigOf(n).methods
            THEN RanOnly(n, "handler", inflight[n].request.method, RouteOf(n))
            ELSE RanWrongMethod(n)

(* C14: no stored Response is ever used; every GET request whose pathname  *)
(* matches a route configured with a Response is answered, without any     *)
(* function being called, by a clone of it: another object with the stored *)
(* status and body, unread when the promise settles; every other request   *)
(* to such a route is answered by wrongMethod.                             *)
C14_StaticResponseIsCloned ==
    /\ \A k \in 1..Len(stored) : ~stored[k].used
    /\ \A n \in 1..Len(inflight) :
          RoutesMatching(n) # {} /\ ConfigOf(n).kind = "response" =>
              IF inflight[n].request.method = "GET"
              THEN /\ inflight[n].ran = <<>>
                   /\ inflight[n].response.kind = "response"
                   /\ inflight[n].response.object = "clone"
                   /\ inflight[n].response.of = RouteOf(n)
                   /\ inflight[n].response.status = StoredResponse(RouteOf(n)).status
                   /\ inflight[n].response.body = StoredResponse(RouteOf(n)).body
                   /\ ~inflight[n].settled => ~inflight[n].response.used
              ELSE RanWrongMethod(n)

\* The caller has read the body of the answer to a GET request to the second
\* of two static routes, and both stored Responses are unused.
C14_Witness ==
    /\ Len(stored) = 2
    /\ \A k \in 1..2 : stored[k].kind = "response" /\ ~stored[k].used
    /\ \E n \in 1..Len(inflight) :
          /\ inflight[n].request.method = "GET"
          /\ RoutesMatching(n) = {2}
          /\ inflight[n].response.used

---------------------------------------------------------------------------
(* Notions the property of the class Router is stated with, computed from  *)
(* the history of registrations.                                           *)

\* The pathname of a registration as the router keeps it.
Kept(pathname) ==
    IF Len(pathname) = 0 \/ pathname[1] # Slash THEN <<Slash>> \o pathname ELSE pathname

\* The pathnames of the first t registrations, each once, in the order of
\* their first registration.
RECURSIVE PathnamesAt(_)
PathnamesAt(t) ==
    IF t = 0 THEN <<>>
    ELSE LET before == PathnamesAt(t - 1)
             p == Kept(registered[t].pathname)
         IN IF \E n \in 1..Len(before) : before[n] = p THEN before
            ELSE Append(before, p)

\* The last of the first t registrations made with this method and pathname
\* (0 if there is none).
LatestHandler(t, method, pathname) ==
    Max({0} \cup {n \in 1..t : /\ registered[n].method = method
                               /\ Kept(registered[n].pathname) = pathname})

\* What a fetch must dispatch to after the first t registrations.
ExpectedDispatch(t, method, url) ==
    LET compiled == createRouter(PathnamesAt(t))
        match == RouterClosure(compiled.matcher, URLPathname(url))
        latest == LatestHandler(t, method, PathnamesAt(t)[match.index + 1])
    IN IF compiled.threw THEN Dispatched("threw", "", 0)
       ELSE IF match.kind = "null" THEN Dispatched("called", "notFound", 0)
       ELSE IF latest > 0 THEN Dispatched("called", "handler", latest)
       ELSE Dispatched("called", "wrongMethod", 0)

(* C16: the matcher that the class Router keeps is either absent or the    *)
(* one compiled from the pathnames registered so far; and every fetch      *)
(* dispatches as all registrations made before it require: to the handler  *)
(* registered last for the method on the first-registered pathname that    *)
(* matches, else to wrongMethod, or to notFound when no pathname matches   *)
(* (it fails when the registered pathnames do not compile).                *)
C16_FetchSeesEveryRegistration ==
    /\ ~classRouter.matcher.null =>
          classRouter.matcher.m = createRouter(PathnamesAt(Len(registered))).matcher
    /\ answer.made =>
          Dispatched(answer.kind, answer.who, answer.handler)
            = ExpectedDispatch(answer.at, answer.method, answer.url)

\* After GET a, GET /:a and then GET /a again, a GET of /a went to the third
\* handler, and the matcher compiled for that fetch is kept.
C16_Witness ==
    /\ registered = << [method |-> "GET", pathname |-> <<"a">>],
                       [method |-> "GET", pathname |-> <<"/", ":", "a">>],
                       [method |-> "GET", pathname |-> <<"/", "a">>] >>
    /\ answer.made /\ answer.at = 3
    /\ answer.method = "GET" /\ answer.url = <<"/", "a">>
    /\ answer.who = "handler" /\ answer.handler = 3
    /\ ~classRouter.matcher.null

---------------------------------------------------------------------------
(* The browser router: history updates and superseded navigations. *)

\* The navigations that have begun.
Begun == 1..Len(navigations)

\* Navigation n has called history.pushState or history.replaceState.
WroteHistory(n) == navigations[n].history # "none"

\* C17: navigate(), redirect() and an intercepted link click call
\* history.pushState or history.replaceState only after the function that
\* handle awaits (the matched route handler or notFound) has completed: a
\* navigation begins with no history call made, and a history call is made
\* only by a step of a navigation whose handler is done, never at the start
\* and never while the handler is pending.
C17_HistoryAfterHandler ==
    [][\A n \in 1..Len(navigations') :
          IF n > Len(navigations)
          THEN navigations'[n].history = "none"
          ELSE navigations'[n].history # navigations[n].history
                  => /\ navigations[n].stage = "completed"
                     /\ navigations[n].history = "none"]_vars

\* A link click whose route handler ran to its end and that then called
\* pushState, and a redirect that called replaceState after notFound.
C17_Witness ==
    \E n \in Begun :
        /\ navigations[n].kind \in {"click", "navigate", "redirect"}
        /\ navigations[n].handler \in {"route", "notFound"}
        /\ navigations[n].stage = "finished"
        /\ WroteHistory(n)

\* C18: when a later navigation (navigate(), redirect(), a link click or a
\* popstate event) begins while the handler of an earlier navigation is
\* still running, the signal of the earlier navigation is aborted and the
\* earlier navigation calls neither pushState nor replaceState.
C18_SupersededIsAborted ==
    \A n \in Begun :
        navigations[n].superseded
            => navigations[n].aborted /\ ~WroteHistory(n)

\* C27: a link-click navigation that was superseded (its signal was aborted
\* before its handler finished) makes no change to the browser location
\* afterwards: onClick neither assigns location.hash nor dispatches a
\* hashchange event for it.
C27_SupersededClickLeavesLocation ==
    \A n \in Begun :
        navigations[n].kind = "click" /\ navigations[n].abortedInFlight
            => ~navigations[n].hashAssigned /\ ~navigations[n].hashchange

\* C28: at every moment at most one abort signal is un-aborted, and it is
\* the signal of the stored controller: navigate, redirect, an intercepted
\* click, a handled popstate and stop abort the stored controller before
\* they replace or clear it, so every handler that is still running, except
\* that of the navigation started last, sees signal.aborted = true.
C28_OneLiveSignal ==
    /\ \A n \in Begun : ~navigations[n].aborted => browserRouter.controller = n
    /\ \A n, m \in Begun :
          ~navigations[n].aborted /\ ~navigations[m].aborted => n = m
    /\ \A n \in Begun :
          navigations[n].stage = "pending" /\ n # Len(navigations)
              => navigations[n].aborted

\* Two handlers are running: the signal of the earlier one is aborted, the
\* signal of the later one is not.
C28_Witness ==
    \E n, m \in Begun :
        /\ n < m
        /\ navigations[n].stage = "pending" /\ navigations[n].handler # "none"
        /\ navigations[m].stage = "pending" /\ navigations[m].handler # "none"
        /\ navigations[n].aborted
        /\ ~navigations[m].aborted
        /\ browserRouter.controller = m

\* The pathname of the last click or popstate event matches no route of the
\* router.
EventUnmatched ==
    \A k \in 1..Len(browserRouter.routes) :
        ~MatchesAlone(browserRouter.routes[k], event.pathname)

\* C29: a link click or popstate event whose pathname matches no route, in
\* a router with no notFound handler, is left to the browser: preventDefault
\* is not called and the event begins no navigation, so that no handler runs
\* and no history call is made for it.
C29_UnmatchedEventLeftToBrowser ==
    event.kind # "none" /\ EventUnmatched /\ ~browserRouter.notFound
        => ~event.prevented /\ ~event.began

\* A click on a link to a pathname outside the routes of a router that has a
\* route and no notFound, left to the browser.
C29_Witness ==
    /\ event.kind = "click"
    /\ Len(browserRouter.routes) > 0
    /\ EventUnmatched
    /\ ~browserRouter.notFound
    /\ ~event.prevented

\* C30: after stop() is called while the handler of a navigation is
\* pending, the signal of that navigation is aborted and the stored
\* controller is null, and when the handler completes later the navigation
\* calls neither pushState or replaceState nor scrollTo.
C30_StopAbortsPending ==
    [][/\ browserRouter.listening /\ ~browserRouter'.listening
            => browserRouter'.controller = 0
       /\ \A n \in 1..Len(navigations') :
             navigations'[n].stopped
                 => /\ navigations'[n].aborted
                    /\ navigations'[n].history = "none"
                    /\ ~navigations'[n].scrolled]_vars

\* stop() was called while a route handler or notFound was running; the
\* handler has completed since, and navigate has returned without a history
\* call and without scrollTo.
C30_Witness ==
    \E n \in Begun :
        /\ navigations[n].stopped
        /\ navigations[n].handler # "none"
        /\ navigations[n].kind # "popstate"
        /\ navigations[n].stage = "finished"
        /\ navigations[n].abortedInFlight
        /\ ~WroteHistory(n)
        /\ ~navigations[n].scrolled
        /\ browserRouter.controller = 0

---------------------------------------------------------------------------
(* route.ts and matcher.ts: href and the classes of the segments. *)

\* The percent-encoded value that params holds for a Param or Splat segment.
EncodedValue(segment) ==
    encodeURIComponent(link.params[IF segment.type = "splat" THEN <<"*">>
                                   ELSE segment.name])

\* C19: href(route, params) returns the segments of the route joined by
\* "/", each Static segment copied unchanged and each Param and Splat
\* segment replaced by the percent-encoded value that params holds for it.
C19_HrefJoinsEncodedSegments ==
    link.made =>
        link.url = Join([p \in 1..Len(routeMade.segments) |->
                            IF routeMade.segments[p].type = "static"
                            THEN routeMade.segments[p].value
                            ELSE EncodedValue(routeMade.segments[p])], Slash)

\* The grammar of a Param piece: ^:[A-Za-z][A-Za-z0-9]*$
IsParamPiece(piece) ==
    /\ Len(piece) >= 2
    /\ piece[1] = ":"
    /\ piece[2] \in Letters
    /\ \A q \in 3..Len(piece) : piece[q] \in Letters \cup Digits

\* The one class of a piece.
ClassOf(piece) ==
    IF piece = <<"*">> THEN "splat"
    ELSE IF IsParamPiece(piece) THEN "param"
    ELSE "static"

\* The pieces that look like a Param or a Splat and are neither:
\* ":", ":1a", ":a-b", "a*", "**" and the empty piece.
NearMisses ==
    { <<":">>, <<":", "1", "a">>, <<":", "a", "-", "b">>, <<"a", "*">>,
      <<"*", "*">>, <<>> }

\* The class that the segment mapping of matcher.ts gave a piece: one
\* `(?<splat>.*)` group, one `[^/]+?` group named after the piece, or
\* literal characters only.
LoweredClasses(part, piece) ==
    {c \in {"splat", "param", "static"} :
        \/ c = "splat" /\ part = <<SplatGroup>>
        \/ /\ c = "param"
           /\ Len(part) = 1
           /\ part[1].t = "group"
           /\ part[1].class = "[^/]"
           /\ Len(part[1].name) > Len(piece)
           /\ SubSeq(part[1].name, 1, Len(piece)) = Tail(piece) \o <<"_">>
        \/ /\ c = "static"
           /\ \A q \in 1..Len(part) : part[q].t = "ch"
           /\ part = escape(piece)}

\* C20: a pattern is split on "/", and each piece gets exactly one class,
\* in createRoute and in the segment mapping of matcher.ts alike: a piece
\* equal to `*` is a Splat, a piece matching ^:[A-Za-z][A-Za-z0-9]*$ is a
\* Param with the name after the colon, and every other piece is Static
\* with the piece as its value, among them ":", ":1a", ":a-b", "a*", "**"
\* and the empty piece; the empty pattern gives one empty Static segment.
C20_SegmentClassification ==
    LET pieces == Split(routeMade.path, Slash)
    IN /\ (routeMade.made /\ ~routeMade.threw) =>
             /\ Len(routeMade.segments) = Len(pieces)
             /\ \A p \in 1..Len(pieces) :
                   /\ routeMade.segments[p].type = ClassOf(pieces[p])
                   /\ pieces[p] \in NearMisses
                         => routeMade.segments[p].type = "static"
                   /\ routeMade.segments[p].type = "param"
                         => routeMade.segments[p].name = Tail(pieces[p])
                   /\ routeMade.segments[p].type = "static"
                         => routeMade.segments[p].value = pieces[p]
             /\ routeMade.path = <<>>
                   => routeMade.segments = <<Segment("static", <<>>, <<>>)>>
       /\ (lowering.made /\ ~lowering.threw) =>
             /\ Len(lowering.parts) = Len(pieces)
             /\ \A p \in 1..Len(pieces) :
                   /\ LoweredClasses(lowering.parts[p], pieces[p]) = {ClassOf(pieces[p])}
                   /\ pieces[p] \in NearMisses
                         => LoweredClasses(lowering.parts[p], pieces[p]) = {"static"}

\* The pattern ":1a/:A1", a near miss and a parameter, through createRoute
\* and through the segment mapping.
C20_Witness ==
    /\ routeMade.made /\ ~routeMade.threw
    /\ lowering.made /\ ~lowering.threw
    /\ routeMade.path = <<":", "1", "a", "/", ":", "A", "1">>
    /\ routeMade.segments[1].type = "static"
    /\ routeMade.segments[2].type = "param"

---------------------------------------------------------------------------
(* The order of the table, the capture identifiers and the side table. *)

\* The patterns of the routes object, in insertion order, that alone match
\* the pathname of the call.
InsertedHits ==
    {k \in 1..Len(routes) : MatchesAlone(routes[k], call.pathname)}

\* C21: createMatcher (matcher.ts) tries the patterns in the order in which
\* the keys were inserted into the routes object, whatever the pattern
\* strings are: the table has the keys in insertion order, and of the
\* patterns that match a pathname the one inserted first is chosen.
C21_TableOrderIsInsertionOrder ==
    phase = "built" /\ api = "matcher.ts" =>
        /\ Table = routes
        /\ call.made /\ InsertedHits # {} =>
              /\ call.result.kind = "match"
              /\ matcher.entries[Chosen].fn = Min(InsertedHits)

\* The capture groups of the combined expression written for pattern a
\* (from 1), in source order, and the segments of the pattern that are a
\* Param or a Splat, in order.
GroupNodes(a) == SelectSeq(matcher.regex.alts[a], LAMBDA nd : nd.t = "group")

CaptureSegments(a) == SelectSeq(SegmentsOf(Table[a]), LAMBDA sg : ~IsStatic(sg))

\* The places of the Param groups: pattern a, group p of it.
ParamPlaces ==
    {pl \in UNION {{<<a, p>> : p \in 1..Len(GroupNodes(a))} : a \in 1..Len(Table)} :
        IsParam(CaptureSegments(pl[1])[pl[2]])}

IdentifierAt(pl) == GroupNodes(pl[1])[pl[2]].name

\* C22: in the combined expression of any table, each Param segment has a
\* capture identifier made of its name, "_" and the 1-based index of its
\* capture group; the identifiers of any two Param segments differ, also
\* when the name is the same in two patterns or twice in one; each Splat
\* segment has the identifier splat, which no Param segment has.
C22_CaptureIdentifiersDistinct ==
    phase = "built" /\ ~matcher.empty =>
        /\ Len(matcher.regex.alts) = Len(Table)
        /\ \A a \in 1..Len(Table) :
              /\ Len(GroupNodes(a)) = Len(CaptureSegments(a))
              /\ \A p \in 1..Len(GroupNodes(a)) :
                    IF IsSplat(CaptureSegments(a)[p])
                    THEN GroupNodes(a)[p].name = SplatGroup.name
                    ELSE /\ GroupNodes(a)[p].name =
                               ParamName(CaptureSegments(a)[p]) \o <<"_">>
                                   \o NumberToString(GroupNodes(a)[p].idx)
                         /\ GroupNodes(a)[p].name # SplatGroup.name
        /\ \A pl, ql \in ParamPlaces : pl # ql => IdentifierAt(pl) # IdentifierAt(ql)

\* A table with the name a three times, twice in its first pattern, and a
\* splat: the identifiers are a_2, a_3, a_5 and splat.
C22_Witness ==
    /\ phase = "built"
    /\ Table = << <<":", "a", "/", ":", "a">>, <<":", "a", "/", "*">> >>
    /\ {IdentifierAt(pl) : pl \in ParamPlaces}
          = {<<"a", "_", "2">>, <<"a", "_", "3">>, <<"a", "_", "5">>}
    /\ GroupNodes(2)[2].name = SplatGroup.name

\* The number of Param and Splat segments in the patterns before pattern
\* k (patterns counted from 0).
RECURSIVE CapturesBefore(_)
CapturesBefore(k) ==
    IF k = 0 THEN 0 ELSE CapturesBefore(k - 1) + Len(CaptureSegments(k))

\* g(k), the zero-based index claimed for the outer group of pattern k.
OuterGroup(k) == k + CapturesBefore(k)

\* The 1-based numbers of the capture groups written for pattern k: its
\* outer group and the groups of its segments.
GroupsOfPattern(k) ==
    {nd.idx : nd \in {matcher.regex.alts[k + 1][p] : p \in 1..Len(matcher.regex.alts[k + 1])}}
        \ {0}

\* The match array of the returning call (element g is capture group g).
MatchArray == RegExpExec(matcher.regex, call.pathname, lastIndex).match

\* C23: the outer capturing group of pattern k has the zero-based index
\* g(k) = k + (the number of Param and Splat segments in patterns 0..k-1),
\* and the side table holds mapping[g(k)] = k; on every match the first
\* defined capture group is the outer group of exactly one pattern, every
\* capture group of the other patterns is undefined, and the index looked
\* up in the side table is an index of the table.
C23_SideTableNamesThePattern ==
    phase = "built" /\ ~matcher.empty =>
        LET last == Len(Table) - 1
        IN /\ \A k \in 0..last :
                 /\ matcher.regex.alts[k + 1][2].t = "open"
                 /\ matcher.regex.alts[k + 1][2].idx = OuterGroup(k) + 1
                 /\ GroupsOfPattern(k) =
                        (OuterGroup(k) + 1)..(OuterGroup(k) + 1 + Len(CaptureSegments(k + 1)))
                 /\ OuterGroup(k) \in DOMAIN matcher.mapping
                 /\ matcher.mapping[OuterGroup(k)] = k
           /\ call.made => call.result.kind \in {"null", "match"}
           /\ Returned("match") =>
                 /\ call.result.index \in 0..last
                 /\ {k \in 0..last : FindIndex(MatchArray) = OuterGroup(k) + 1}
                        = {call.result.index}
                 /\ \A k \in 0..last :
                       k # call.result.index =>
                           \A g \in GroupsOfPattern(k) : ~MatchArray[g].def

\* The second pattern matched, after a first pattern with two groups: its
\* outer group is group 4 of the match array (zero-based index 3).
C23_Witness ==
    /\ Returned("match")
    /\ Table = << <<":", "a", "/", ":", "a">>, <<":", "a", "/", "*">> >>
    /\ call.result.index = 1
    /\ FindIndex(MatchArray) = 4
    /\ matcher.mapping[3] = 1

\* The positions (from 1) of the Param segments of a pattern with this name.
PositionsOf(pattern, name) ==
    {p \in 1..Len(SegmentsOf(pattern)) :
        IsParam(SegmentsOf(pattern)[p]) /\ ParamName(SegmentsOf(pattern)[p]) = name}

\* The parameter names that a pattern uses at two positions or more.
RepeatedNames(pattern) ==
    {ParamName(SegmentsOf(pattern)[p]) :
        p \in {q \in 1..Len(SegmentsOf(pattern)) :
                  /\ IsParam(SegmentsOf(pattern)[q])
                  /\ Cardinality(PositionsOf(pattern, ParamName(SegmentsOf(pattern)[q]))) >= 2}}

\* C24: a pattern that uses one parameter name at two positions is
\* accepted by the construction, and a match of it reports the name once,
\* with the piece of the pathname captured at the later position.
C24_LaterOccurrenceWins ==
    /\ (phase # "idle" /\ \A n \in 1..Len(routes) : ~MisplacedSplat(routes[n]))
          => phase = "built"
    /\ Returned("match") =>
          \A name \in RepeatedNames(Table[Chosen]) :
              /\ name \in DOMAIN call.result.params
              /\ call.result.params[name] =
                    Pieces(call.pathname)[Max(PositionsOf(Table[Chosen], name))]

\* The pattern :a/:a matched a/%41 and reports {a: "%41"}.
C24_Witness ==
    /\ Returned("match")
    /\ Table[Chosen] = <<":", "a", "/", ":", "a">>
    /\ call.pathname = <<"a", "/", "%", "4", "1">>
    /\ call.result.params = (<<"a">> :> <<"%", "4", "1">>)

\* The matched pattern with each Param and Splat segment replaced by the
\* value extracted for it, joined with "/".
Substituted ==
    LET segs == SegmentsOf(Table[Chosen])
    IN Join([p \in 1..Len(segs) |->
                IF IsSplat(segs[p]) THEN call.result.params[<<"*">>]
                ELSE IF IsParam(segs[p]) THEN call.result.params[ParamName(segs[p])]
                ELSE segs[p]], Slash)

\* C25: on every match of a pattern without a repeated parameter name, the
\* pattern with each Param and Splat segment replaced by its extracted
\* value, joined with "/", is the pathname given: the values are the texts
\* of the pathname as they stand, not decoded, trimmed or normalized.
C25_ValuesAreVerbatim ==
    Returned("match") /\ RepeatedNames(Table[Chosen]) = {} =>
        Substituted = call.pathname

\* /:a/:b matched "/%41/ " with a percent-encoded and a blank value.
C25_Witness ==
    /\ Returned("match")
    /\ Table[Chosen] = <<"/", ":", "a", "/", ":", "b">>
    /\ call.pathname = <<"/", "%", "4", "1", "/", " ">>
    /\ call.result.params = (<<"a">> :> <<"%", "4", "1">>) @@ (<<"b">> :> <<" ">>)

\* Percent-encoding leaves every value of params as it is.
ValuesKeptByEncoding ==
    \A k \in DOMAIN link.params :
        link.params[k] # <<>> /\ encodeURIComponent(link.params[k]) = link.params[k]

\* C26: for a route built by createRoute and params whose values
\* percent-encoding leaves unchanged, the matcher built from the route
\* alone, called with href(route, params), returns the path of the route
\* with params equal to the map given.
C26_HrefThenMatch ==
    roundTrip.made /\ ValuesKeptByEncoding =>
        /\ roundTrip.result.kind = "match"
        /\ roundTrip.result.index = 0
        /\ roundTrip.result.params = link.params

=============================================================================
